---------------------------- MODULE Spec2Model ----------------------------
(***************************************************************************)
(* Model of the elspeth sidecar daemon (src/sidecar/src): the grant table, *)
(* the construction-ticket table, the registered-frame table and the       *)
(* per-connection request handler, with every concurrent-map operation one *)
(* atomic step so that handlers running on different worker threads        *)
(* interleave between them.                                                *)
(***************************************************************************)
EXTENDS Integers, Sequences, FiniteSets, TLC

(***************************************************************************)
(* Bounds of the model.                                                    *)
(***************************************************************************)
NumTasks == 2       \* tasks of the table specifications that run at the same time
MaxGrants == 1      \* grants the RNG hands out in one run
MaxTime == 2        \* last instant of the monotonic clock
MaxRequests == 3    \* requests one run of the server serves (requests_served)
MaxListenerRequests == 3 \* the same cap in the listener specification
MaxGrantCalls == 3  \* the same cap in the grant-table specification
MaxTicketCalls == 2 \* the same cap in the ticket-table specification
MaxTickets == 1     \* tickets issued in the ticket-table specification
MaxRunCalls == 3    \* the same cap in the specification of the running server
MaxSealCalls == 4   \* the same cap in the seal specification
MaxPairGrants == 2   \* grants authorized in the specification of several grants
MaxPairCalls == 4    \* requests served in the specification of several grants
MaxRedeemedCalls == 4 \* the same cap in the specification of a redeemed grant

NumDaemons == 2     \* processes that call load_or_init_session_key on one path

grant_ttl_secs == 1 \* Config::grant_ttl_secs, the TTL of grants and tickets

KeyLen == 32        \* load_or_init_session_key: the length of the key
KeyFileMode == 416  \* 0o640, the mode load_or_init_session_key creates the file with
PermMask == 511     \* 0o777, the permission bits of a mode
DefaultUmask == 18  \* 0o022
RestrictiveUmask == 63 \* 0o077
SocketMode == 384   \* 0o600, the mode run sets on the socket file
SealLen == 32       \* the length of a seal, the output of Blake2sMac256

Tasks == 1..NumTasks
Conns == {1, 2}                    \* the connection tasks of the server specification
GrantIds == 1..MaxGrants
ForgedId == 0                      \* a value the RNG never produced
AllGrantIds == GrantIds \cup {ForgedId}
AllTickets == GrantIds \cup {ForgedId}
FrameIds == {"f1", "f2"}
Levels == {3}
Digests == {"dAA"}

appuser_uid == "appuser"           \* Config::appuser_uid
OtherUid == "other"
Uids == {appuser_uid, OtherUid}

session_key == "session_key"       \* Server::session_key
seal_key == "seal_key"             \* Secrets::seal_key
BadAuth == <<"DE", "AD", "BE", "EF">>
OversizedAuth == <<"2048 bytes">>     \* an auth byte string larger than any size cap
ForgedSeal == [len |-> SealLen, mac |-> <<"forged_seal">>]

(***************************************************************************)
(* crypto.rs: the seal is a keyed MAC over frame_id || be32(level) ||      *)
(* data_digest.  The MAC is modelled as collision-free: the tag is the     *)
(* tuple of the key and the message.  The message is a sequence: the 16    *)
(* bytes of the frame_id as one element, the four bytes of the level, the  *)
(* 32 bytes of the digest as one element.                                  *)
(***************************************************************************)
\* Mutant: the level is written as one byte.
to_low_byte(level) == <<0, 0, 0, level % 256>>

\* u32::to_be_bytes
to_be_bytes(level) ==
    <<(level \div 16777216) % 256, (level \div 65536) % 256,
      (level \div 256) % 256, level % 256>>

\* Blake2sMac256 keyed with `key` over `message`; finalize_fixed gives 32 bytes.
Blake2sMac256(key, message) ==
    [len |-> SealLen, mac |-> <<"blake2s", key, message>>]

compute_seal(frame_id, level, data_digest) ==
    Blake2sMac256(seal_key, <<frame_id>> \o to_be_bytes(level) \o <<data_digest>>)

\* The length test, then the constant-time comparison.
verify_seal(frame_id, level, data_digest, seal) ==
    LET expected == compute_seal(frame_id, level, data_digest)
    IN  IF seal.len # expected.len THEN FALSE ELSE seal = expected

\* The seals a peer presents: the seals of frame "f1" (valid for "f1", for
\* another frame when presented with "f2") and one that is no MAC at all.
Seals == {compute_seal("f1", l, d) : l \in Levels, d \in Digests}
            \cup {ForgedSeal}

(***************************************************************************)
(* protocol.rs: the requests and the HMAC input of each variant.           *)
(***************************************************************************)
requires_auth(request) == request.op # "health_check"

\* Mutant: the HMAC input of ComputeSeal names its variant.
canonical_bytes_with_variant(request) ==
    CASE request.op = "authorize_construct" ->
            <<"array", <<request.frame_id, request.level, request.data_digest>> >>
      [] request.op = "compute_seal" ->
            <<"array", <<"ComputeSeal", request.frame_id, request.level,
                         request.data_digest>> >>
      [] request.op = "verify_seal" ->
            <<"array", <<request.frame_id, request.level, request.data_digest,
                         request.seal>> >>
      [] request.op = "redeem_grant" -> <<"bytes16", request.grant_id>>
      [] request.op = "consume_construction_ticket" -> <<"bytes32", request.ticket>>
      [] OTHER -> <<>>

canonical_bytes_without_auth(request) ==
    CASE request.op = "authorize_construct" ->
            <<"array", <<request.frame_id, request.level, request.data_digest>> >>
      [] request.op = "compute_seal" ->
            <<"array", <<request.frame_id, request.level, request.data_digest>> >>
      [] request.op = "verify_seal" ->
            <<"array", <<request.frame_id, request.level, request.data_digest,
                         request.seal>> >>
      [] request.op = "redeem_grant" -> <<"bytes16", request.grant_id>>
      [] request.op = "consume_construction_ticket" -> <<"bytes32", request.ticket>>
      [] OTHER -> <<>>

compute_request_auth(request) ==
    <<"hmac_sha256", session_key, canonical_bytes_without_auth(request)>>

\* Mutant: the HMAC is not compared.
ValidateAcceptsAll(request) == TRUE

validate_request_auth(request) ==
    IF ~requires_auth(request) THEN TRUE
    ELSE request.auth = compute_request_auth(request)

WithAuth(r, a) == [x \in (DOMAIN r) \cup {"auth"} |-> IF x = "auth" THEN a ELSE r[x]]

\* The authenticated variants over the given field values, without auth.
Unsigned(frame_ids, levels, digests, seals) ==
    [op : {"authorize_construct"}, frame_id : frame_ids, level : levels,
     data_digest : digests]
    \cup [op : {"redeem_grant"}, grant_id : AllGrantIds]
    \cup [op : {"consume_construction_ticket"}, ticket : AllTickets]
    \cup [op : {"compute_seal"}, frame_id : frame_ids, level : levels,
          data_digest : digests]
    \cup [op : {"verify_seal"}, frame_id : frame_ids, level : levels,
          data_digest : digests, seal : seals]

OfOps(requests, ops) == {r \in requests : r.op \in ops}

\* The requests a peer that holds the session key sends.
Signed(unsigned) ==
    {WithAuth(r, compute_request_auth(r)) : r \in unsigned}
    \cup {[op |-> "health_check"]}

\* The same requests with an auth field that is not their HMAC.
Unauthentic(unsigned) == {WithAuth(r, BadAuth) : r \in unsigned}

\* A well-formed request made large by its auth byte string.
Oversized(unsigned) ==
    {WithAuth(r, OversizedAuth) : r \in OfOps(unsigned, {"authorize_construct"})}

Requests == Signed(Unsigned(FrameIds, Levels, Digests, Seals))

NoRequest == [op |-> "none"]
NoResponse == [kind |-> "none"]
NoLocal == [tag |-> "none"]

(***************************************************************************)
(* Texts are sequences of fragments, so that "reason contains X" is a test *)
(* the model can make.                                                     *)
(***************************************************************************)
Contains(text, fragment) == \E i \in 1..Len(text) : text[i] = fragment

ErrGrantNotFound == <<"Grant ", "not found", " or already redeemed">>
ErrGrantExpired == <<"Grant ", "expired">>
ErrTicketNotIssued ==
    <<"Construction ticket ", "not found", " (", "never issued", " or ", "expired", ")">>
ErrTicketConsumed == <<"Construction ticket ", "already consumed">>

ErrorResponse(error, reason) == [kind |-> "Error", error |-> error, reason |-> reason]

AuthFailedResponse ==
    ErrorResponse(<<"Authentication failed">>, <<"Invalid HMAC signature">>)

FrameNotRegisteredResponse(frame_id) ==
    ErrorResponse(<<"Frame not registered">>,
                  <<"Frame ", frame_id, " must be registered via grant redemption first">>)

\* handle_client: an Err of handle_request becomes an Error response.
RequestFailedResponse(e) == ErrorResponse(<<"Request failed">>, e)

VARIABLES
    now,              \* the clock (Instant::now and SystemTime::now)
    grants,           \* GrantTable::grants
    issued_tickets,   \* ConstructionTicketTable::issued_tickets
    consumed_tickets, \* ConstructionTicketTable::consumed_tickets
    frames,           \* RegisteredFrameTable::frames
    requests_served,  \* Server::requests_served
    conn,             \* the connection tasks
    cleaner,          \* a caller of cleanup_expired
    authorized,       \* history: every grant authorize() created, by grant_id
    redeem_ok,        \* history: number of Ok results of redeem, by grant_id
    consume_ok,       \* history: number of Ok results of consume, by ticket
    redeemed_frames,  \* history: frame_ids of grants whose redeem returned Ok
    ever_issued,      \* history: tickets passed to issue()
    redeem_reply,     \* history: the RedeemGrantReply of each grant_id
    key_file,         \* the file at Config::session_key_path
    daemon,           \* the callers of load_or_init_session_key
    socket_file,      \* the file at Config::socket_path
    main,             \* main: its position in Server::new and Server::run
    secrets_call      \* a caller of Secrets::compute_seal and Secrets::verify_seal

tables == <<grants, issued_tickets, consumed_tickets, frames>>
history == <<authorized, redeem_ok, consume_ok, redeemed_frames, ever_issued,
            redeem_reply>>
listening == <<socket_file, main, secrets_call>>
boot == <<key_file, daemon, socket_file, main, secrets_call>>
vars == <<now, grants, issued_tickets, consumed_tickets, frames, requests_served,
          conn, cleaner, authorized, redeem_ok, consume_ok, redeemed_frames,
          ever_issued, redeem_reply, key_file, daemon, socket_file, main,
          secrets_call>>

\* A map as a function on its key set.
Insert(map, k, v) == [x \in (DOMAIN map) \cup {k} |-> IF x = k THEN v ELSE map[x]]
Remove(map, k) == [x \in (DOMAIN map) \ {k} |-> map[x]]
EmptyMap == [x \in {} |-> 0]

(***************************************************************************)
(* server.rs, load_or_init_session_key: the file at session_key_path and   *)
(* the processes that call the function on it.  A key is its length and    *)
(* the bytes, the bytes named by where they came from.                     *)
(***************************************************************************)
Daemons == 1..NumDaemons
NoFile == [exists |-> FALSE]
KeyBytes(len, bytes) == [len |-> len, bytes |-> bytes]
NoKey == KeyBytes(0, "none")
KeyFile(mode, content, creator) ==
    [exists |-> TRUE, mode |-> mode, content |-> content, creator |-> creator]
IdleDaemon ==
    [pc |-> "start", umask |-> DefaultUmask, key |-> NoKey, created |-> FALSE,
     result |-> "none"]

\* Server::new has run: the key file is there and the server holds its key.
BootedFile == KeyFile(KeyFileMode, KeyBytes(KeyLen, session_key), 1)
BootedDaemon ==
    [IdleDaemon EXCEPT !.pc = "done", !.key = BootedFile.content,
                       !.created = TRUE, !.result = "Ok"]

IdleConn ==
    [pc |-> "idle", uid |-> appuser_uid, request |-> NoRequest,
     response |-> NoResponse, local |-> NoLocal]

\* Server::new: the tables are empty and the counter is zero.
ServerInit ==
    /\ now = 0
    /\ grants = EmptyMap
    /\ issued_tickets = EmptyMap
    /\ consumed_tickets = EmptyMap
    /\ frames = EmptyMap
    /\ requests_served = 0
    /\ conn = [c \in Tasks |-> IdleConn]
    /\ cleaner = [pc |-> "idle", now |-> 0]
    /\ authorized = EmptyMap
    /\ redeem_ok = [g \in AllGrantIds |-> 0]
    /\ consume_ok = [t \in AllTickets |-> 0]
    /\ redeemed_frames = {}
    /\ ever_issued = {}
    /\ redeem_reply = EmptyMap

\* The file a path of the filesystem holds that is not a key file: a socket.
SocketFile(mode, listener) == [exists |-> TRUE, mode |-> mode, listener |-> listener]
Main(pc, error) == [pc |-> pc, error |-> error, unlinked |-> FALSE]

\* Server::run has bound the socket and reached its accept loop.
NoCall == [pc |-> "idle"]

ListeningInit ==
    /\ socket_file = SocketFile(SocketMode, TRUE)
    /\ main = Main("accept", "none")
    /\ secrets_call = NoCall

Init ==
    /\ ServerInit
    /\ key_file = BootedFile
    /\ daemon = [d \in Daemons |-> IF d = 1 THEN BootedDaemon ELSE IdleDaemon]
    /\ ListeningInit


(***************************************************************************)
(* grants.rs: the two expiry tests.                                        *)
(***************************************************************************)
\* Mutant: the comparison of redeem reversed.
GrantExpiredReversed(grant, t) == t < grant.expires_at

\* redeem: Instant::now() > grant.expires_at
GrantExpired(grant, t) == t > grant.expires_at

\* Mutant: cleanup drops what expires within the next second as well.
RetainedWithMargin(expires_at, t) == expires_at > t + 1

\* cleanup_expired: retain(|_, grant| grant.expires_at > now)
RetainedAt(expires_at, t) == expires_at > t

\* GrantTable::cleanup_expired: grants.retain
RetainGrants(map, t) ==
    [x \in {k \in DOMAIN map : RetainedAt(map[k].expires_at, t)} |-> map[x]]

\* ConstructionTicketTable::cleanup_expired: either retain
RetainTickets(map, t) ==
    [x \in {k \in DOMAIN map : RetainedAt(map[k], t)} |-> map[x]]

FreshGrantId == Cardinality(DOMAIN authorized) + 1

\* Requests that still await a fresh grant_id.
AuthorizeInFlight ==
    {c \in Tasks : conn[c].pc \in {"handle", "authorize_construct"}
                   /\ conn[c].request.op = "authorize_construct"}

Step(c, pc, next) ==
    /\ conn[c].pc = pc
    /\ conn' = [conn EXCEPT ![c] = next]

Reply(c, response) ==
    [conn[c] EXCEPT !.pc = "write", !.response = response, !.local = NoLocal]

Goto(c, pc) == [conn[c] EXCEPT !.pc = pc]

\* The task ends and the stream is dropped; `how` tells how it ended, and the
\* slot is free for the next connection.
RestPcs == {"idle", "rejected", "eof", "undecoded"}
Closed(how) == [IdleConn EXCEPT !.pc = how]

(***************************************************************************)
(* server.rs, Server::run and Server::handle_client.                       *)
(***************************************************************************)
\* run: listener.accept() and tokio::spawn of handle_client.
Accept(c) ==
    /\ main.pc = "accept"
    /\ conn[c].pc \in RestPcs
    /\ requests_served < MaxListenerRequests
    /\ \E uid \in Uids :
          conn' = [conn EXCEPT ![c] = [IdleConn EXCEPT !.pc = "peercred", !.uid = uid]]
    /\ UNCHANGED <<boot, now, tables, requests_served, cleaner, history>>

\* Mutant: the peer UID is not compared.
PeerCredCheckSkipped(c) ==
    /\ Step(c, "peercred", Goto(c, "read"))
    /\ UNCHANGED <<boot, now, tables, requests_served, cleaner, history>>

\* handle_client: the SO_PEERCRED check, before anything is read.
PeerCredCheck(c) ==
    /\ Step(c, "peercred",
            IF conn[c].uid # appuser_uid THEN Closed("rejected")
            ELSE Goto(c, "read"))
    /\ UNCHANGED <<boot, now, tables, requests_served, cleaner, history>>

\* What a peer may send on a connection: authentic or not.
ListenerRequests ==
    Requests \cup Unauthentic(Unsigned(FrameIds, Levels, Digests, Seals))
             \cup Oversized(Unsigned(FrameIds, Levels, Digests, Seals))

\* Mutant: a request that does not decode is answered with an Error.
ReadRequestAnswersUndecoded(c) ==
    /\ conn[c].pc = "read"
    /\ \/ conn' = [conn EXCEPT ![c] = Closed("eof")]
       \/ conn' = [conn EXCEPT ![c] =
                     Reply(c, RequestFailedResponse(<<"Failed to parse CBOR request">>))]
       \/ \E request \in ListenerRequests :
             /\ request.op = "authorize_construct" =>
                   Cardinality(DOMAIN authorized) + Cardinality(AuthorizeInFlight)
                       < MaxGrants
             /\ conn' = [conn EXCEPT ![c] =
                           [conn[c] EXCEPT !.pc = "handle", !.request = request]]
    /\ UNCHANGED <<boot, now, tables, requests_served, cleaner, history>>

\* handle_client: read_to_end, the empty-buffer return and the CBOR decode.
ReadRequest(c) ==
    /\ conn[c].pc = "read"
    /\ \/ conn' = [conn EXCEPT ![c] = Closed("eof")]        \* nothing was sent
       \/ conn' = [conn EXCEPT ![c] = Closed("undecoded")]  \* not a CBOR request
       \/ \E request \in ListenerRequests :
             /\ request.op = "authorize_construct" =>
                   Cardinality(DOMAIN authorized) + Cardinality(AuthorizeInFlight)
                       < MaxGrants
             /\ conn' = [conn EXCEPT ![c] =
                           [conn[c] EXCEPT !.pc = "handle", !.request = request]]
    /\ UNCHANGED <<boot, now, tables, requests_served, cleaner, history>>

\* Mutant: the counter counts the authenticated requests only.
HandleRequestUncounted(c) ==
    /\ conn[c].pc = "handle"
    /\ IF requires_auth(conn[c].request) /\ ~validate_request_auth(conn[c].request)
       THEN /\ conn' = [conn EXCEPT ![c] = Reply(c, AuthFailedResponse)]
            /\ UNCHANGED requests_served
       ELSE /\ requests_served' =
                  requests_served + (IF requires_auth(conn[c].request) THEN 1 ELSE 0)
            /\ conn' = [conn EXCEPT ![c] = Goto(c, conn[c].request.op)]
    /\ UNCHANGED <<boot, now, tables, cleaner, history>>

\* Mutant: the counter is incremented before the HMAC check.
HandleRequestCountsRejected(c) ==
    /\ conn[c].pc = "handle"
    /\ requests_served' = requests_served + 1
    /\ IF requires_auth(conn[c].request) /\ ~validate_request_auth(conn[c].request)
       THEN conn' = [conn EXCEPT ![c] = Reply(c, AuthFailedResponse)]
       ELSE conn' = [conn EXCEPT ![c] = Goto(c, conn[c].request.op)]
    /\ UNCHANGED <<boot, now, tables, cleaner, history>>

\* handle_request: the HMAC check, the counter and the dispatch.
HandleRequest(c) ==
    /\ conn[c].pc = "handle"
    /\ IF requires_auth(conn[c].request) /\ ~validate_request_auth(conn[c].request)
       THEN /\ conn' = [conn EXCEPT ![c] = Reply(c, AuthFailedResponse)]
            /\ UNCHANGED requests_served
       ELSE /\ requests_served' = requests_served + 1
            /\ conn' = [conn EXCEPT ![c] = Goto(c, conn[c].request.op)]
    /\ UNCHANGED <<boot, now, tables, cleaner, history>>

\* Mutant: after the response the handler reads the next request of the
\* connection.
WriteResponseKeepAlive(c) ==
    /\ Step(c, "write", [IdleConn EXCEPT !.pc = "read"])
    /\ UNCHANGED <<boot, now, tables, requests_served, cleaner, history>>

\* handle_client: write_all of the encoded response, then the task ends.
WriteResponse(c) ==
    /\ Step(c, "write", Closed("idle"))
    /\ UNCHANGED <<boot, now, tables, requests_served, cleaner, history>>

(***************************************************************************)
(* handle_authorize_construct and GrantTable::authorize.                   *)
(***************************************************************************)
\* Mutant: the ticket is issued when the grant is authorized.
AuthorizeIssuesTicket(c) ==
    LET r == conn[c].request
        grant_id == FreshGrantId
        grant == [request |-> [frame_id |-> r.frame_id, level |-> r.level,
                               data_digest |-> r.data_digest],
                  construction_ticket |-> grant_id,
                  expires_at |-> now + grant_ttl_secs]
    IN  /\ conn[c].pc = "authorize_construct"
        /\ grants' = Insert(grants, grant_id, grant)
        /\ authorized' = Insert(authorized, grant_id, grant)
        /\ issued_tickets' = Insert(issued_tickets, grant_id, now + grant_ttl_secs)
        /\ conn' = [conn EXCEPT ![c] =
                      Reply(c, [kind |-> "AuthorizeConstructReply",
                                grant_id |-> grant_id,
                                expires_at |-> now + grant_ttl_secs])]
        /\ UNCHANGED <<boot, now, consumed_tickets, frames,
                       requests_served, cleaner, redeem_ok, consume_ok,
                       redeemed_frames, ever_issued, redeem_reply>>

Authorize(c) ==
    LET r == conn[c].request
        grant_id == FreshGrantId
        grant == [request |-> [frame_id |-> r.frame_id, level |-> r.level,
                               data_digest |-> r.data_digest],
                  construction_ticket |-> grant_id,
                  expires_at |-> now + grant_ttl_secs]
    IN  /\ conn[c].pc = "authorize_construct"
        /\ grants' = Insert(grants, grant_id, grant)
        /\ authorized' = Insert(authorized, grant_id, grant)
        /\ conn' = [conn EXCEPT ![c] =
                      Reply(c, [kind |-> "AuthorizeConstructReply",
                                grant_id |-> grant_id,
                                expires_at |-> now + grant_ttl_secs])]
        /\ UNCHANGED <<boot, now, issued_tickets, consumed_tickets, frames,
                       requests_served, cleaner, redeem_ok, consume_ok,
                       redeemed_frames, ever_issued, redeem_reply>>

(***************************************************************************)
(* handle_redeem_grant: GrantTable::redeem (the remove, then the expiry    *)
(* test), ConstructionTicketTable::issue, register_from_grant, the reply.  *)
(***************************************************************************)
RedeemFailed(c, e) ==
    Reply(c, RequestFailedResponse(<<"Grant redemption failed", ": ">> \o e))

\* Mutant: redeem looks the grant up and leaves it in the table.
RedeemRemoveKeepsEntry(c) ==
    LET grant_id == conn[c].request.grant_id
    IN  /\ conn[c].pc = "redeem_grant"
        /\ IF grant_id \in DOMAIN grants
           THEN conn' = [conn EXCEPT ![c] =
                           [conn[c] EXCEPT !.pc = "redeem_check",
                                           !.local = [tag |-> "redeem",
                                                      grant |-> grants[grant_id],
                                                      called_at |-> now]]]
           ELSE conn' = [conn EXCEPT ![c] = RedeemFailed(c, ErrGrantNotFound)]
        /\ UNCHANGED <<boot, now, tables, requests_served, cleaner, history>>

\* Mutant: redeem tests the expiry first and removes only a live grant.
RedeemRemoveUnlessExpired(c) ==
    LET grant_id == conn[c].request.grant_id
    IN  /\ conn[c].pc = "redeem_grant"
        /\ IF grant_id \notin DOMAIN grants
           THEN /\ conn' = [conn EXCEPT ![c] = RedeemFailed(c, ErrGrantNotFound)]
                /\ UNCHANGED grants
           ELSE IF GrantExpired(grants[grant_id], now)
           THEN /\ conn' = [conn EXCEPT ![c] = RedeemFailed(c, ErrGrantExpired)]
                /\ UNCHANGED grants
           ELSE /\ grants' = Remove(grants, grant_id)
                /\ conn' = [conn EXCEPT ![c] =
                              [conn[c] EXCEPT !.pc = "redeem_check",
                                              !.local = [tag |-> "redeem",
                                                         grant |-> grants[grant_id],
                                                         called_at |-> now]]]
        /\ UNCHANGED <<boot, now, issued_tickets, consumed_tickets, frames,
                       requests_served, cleaner, history>>

\* Mutant: a redeem empties the grant table.
RedeemRemoveClears(c) ==
    LET grant_id == conn[c].request.grant_id
    IN  /\ conn[c].pc = "redeem_grant"
        /\ IF grant_id \in DOMAIN grants
           THEN /\ grants' = EmptyMap
                /\ conn' = [conn EXCEPT ![c] =
                              [conn[c] EXCEPT !.pc = "redeem_check",
                                              !.local = [tag |-> "redeem",
                                                         grant |-> grants[grant_id],
                                                         called_at |-> now]]]
           ELSE /\ conn' = [conn EXCEPT ![c] = RedeemFailed(c, ErrGrantNotFound)]
                /\ UNCHANGED grants
        /\ UNCHANGED <<boot, now, issued_tickets, consumed_tickets, frames,
                       requests_served, cleaner, history>>

RedeemRemove(c) ==
    LET grant_id == conn[c].request.grant_id
    IN  /\ conn[c].pc = "redeem_grant"
        /\ IF grant_id \in DOMAIN grants
           THEN /\ grants' = Remove(grants, grant_id)
                /\ conn' = [conn EXCEPT ![c] =
                              [conn[c] EXCEPT !.pc = "redeem_check",
                                              !.local = [tag |-> "redeem",
                                                         grant |-> grants[grant_id],
                                                         called_at |-> now]]]
           ELSE /\ conn' = [conn EXCEPT ![c] = RedeemFailed(c, ErrGrantNotFound)]
                /\ UNCHANGED grants
        /\ UNCHANGED <<boot, now, issued_tickets, consumed_tickets, frames,
                       requests_served, cleaner, history>>

\* Mutant: the frame of the grant is registered before the expiry test.
RedeemCheckRegistersFirst(c) ==
    LET grant == conn[c].local.grant
        grant_id == conn[c].request.grant_id
    IN  /\ conn[c].pc = "redeem_check"
        /\ frames' = Insert(frames, grant.request.frame_id,
                            [level |-> grant.request.level,
                             data_digest |-> grant.request.data_digest])
        /\ IF GrantExpired(grant, now)
           THEN /\ conn' = [conn EXCEPT ![c] =
                              [RedeemFailed(c, ErrGrantExpired)
                                  EXCEPT !.local = conn[c].local]]
                /\ UNCHANGED <<redeem_ok, redeemed_frames>>
           ELSE /\ conn' = [conn EXCEPT ![c] = Goto(c, "issue")]
                /\ redeem_ok' = [redeem_ok EXCEPT ![grant_id] = @ + 1]
                /\ redeemed_frames' = redeemed_frames \cup {grant.request.frame_id}
        /\ UNCHANGED <<boot, now, grants, issued_tickets, consumed_tickets,
                       requests_served, cleaner, authorized, consume_ok,
                       ever_issued, redeem_reply>>

RedeemCheck(c) ==
    LET grant == conn[c].local.grant
        grant_id == conn[c].request.grant_id
    IN  /\ conn[c].pc = "redeem_check"
        /\ IF GrantExpired(grant, now)
           THEN /\ conn' = [conn EXCEPT ![c] =
                              [RedeemFailed(c, ErrGrantExpired)
                                  EXCEPT !.local = conn[c].local]]
                /\ UNCHANGED <<redeem_ok, redeemed_frames>>
           ELSE /\ conn' = [conn EXCEPT ![c] = Goto(c, "issue")]
                /\ redeem_ok' = [redeem_ok EXCEPT ![grant_id] = @ + 1]
                /\ redeemed_frames' = redeemed_frames \cup {grant.request.frame_id}
        /\ UNCHANGED <<boot, now, tables, requests_served, cleaner, authorized,
                       consume_ok, ever_issued, redeem_reply>>

\* Mutant: handle_redeem_grant without the call of tickets.issue.
TicketsIssueForgotten(c) ==
    /\ Step(c, "issue", Goto(c, "register"))
    /\ UNCHANGED <<boot, now, tables, requests_served, cleaner, history>>

TicketsIssue(c) ==
    LET ticket == conn[c].local.grant.construction_ticket
    IN  /\ Step(c, "issue", Goto(c, "register"))
        /\ issued_tickets' = Insert(issued_tickets, ticket, now + grant_ttl_secs)
        /\ ever_issued' = ever_issued \cup {ticket}
        /\ UNCHANGED <<boot, now, grants, consumed_tickets, frames, requests_served,
                       cleaner, authorized, redeem_ok, consume_ok, redeemed_frames,
                       redeem_reply>>

\* Mutant: the reply is built without the call of register_from_grant.
RegisterFromGrantReplyOnly(c) ==
    LET grant == conn[c].local.grant
        g == grant.request
        reply == [kind |-> "RedeemGrantReply",
                  construction_ticket |-> grant.construction_ticket,
                  seal |-> compute_seal(g.frame_id, g.level, g.data_digest),
                  audit_id |-> 0]
    IN  /\ conn[c].pc = "register"
        /\ conn' = [conn EXCEPT ![c] = Reply(c, reply)]
        /\ redeem_reply' = Insert(redeem_reply, conn[c].request.grant_id, reply)
        /\ UNCHANGED <<boot, now, tables, requests_served, cleaner, authorized,
                       redeem_ok, consume_ok, redeemed_frames, ever_issued>>

RegisterFromGrant(c) ==
    LET grant == conn[c].local.grant
        g == grant.request
        reply == [kind |-> "RedeemGrantReply",
                  construction_ticket |-> grant.construction_ticket,
                  seal |-> compute_seal(g.frame_id, g.level, g.data_digest),
                  audit_id |-> 0]
    IN  /\ conn[c].pc = "register"
        /\ frames' = Insert(frames, g.frame_id,
                            [level |-> g.level, data_digest |-> g.data_digest])
        /\ conn' = [conn EXCEPT ![c] = Reply(c, reply)]
        /\ redeem_reply' = Insert(redeem_reply, conn[c].request.grant_id, reply)
        /\ UNCHANGED <<boot, now, grants, issued_tickets, consumed_tickets,
                       requests_served, cleaner, authorized, redeem_ok,
                       consume_ok, redeemed_frames, ever_issued>>

(***************************************************************************)
(* handle_consume_construction_ticket and ConstructionTicketTable::consume:*)
(* contains_key on issued, contains_key on consumed, insert into consumed, *)
(* remove from issued.  Each is one map operation, and another task may    *)
(* run between any two of them.                                            *)
(***************************************************************************)
ConsumeFailed(c, e) == Reply(c, ErrorResponse(<<"Ticket consumption failed">>, e))

\* Mutant: consume without the issued-set test.
ConsumeSkipIssuedCheck(c) ==
    /\ Step(c, "consume_construction_ticket", Goto(c, "consume_check_consumed"))
    /\ UNCHANGED <<boot, now, tables, requests_served, cleaner, history>>

ConsumeCheckIssued(c) ==
    /\ Step(c, "consume_construction_ticket",
            IF conn[c].request.ticket \notin DOMAIN issued_tickets
            THEN ConsumeFailed(c, ErrTicketNotIssued)
            ELSE Goto(c, "consume_check_consumed"))
    /\ UNCHANGED <<boot, now, tables, requests_served, cleaner, history>>

ConsumeCheckConsumed(c) ==
    /\ Step(c, "consume_check_consumed",
            IF conn[c].request.ticket \in DOMAIN consumed_tickets
            THEN ConsumeFailed(c, ErrTicketConsumed)
            ELSE Goto(c, "consume_insert"))
    /\ UNCHANGED <<boot, now, tables, requests_served, cleaner, history>>

ConsumeInsert(c) ==
    /\ Step(c, "consume_insert", Goto(c, "consume_remove"))
    /\ consumed_tickets' = Insert(consumed_tickets, conn[c].request.ticket,
                                  now + grant_ttl_secs)
    /\ UNCHANGED <<boot, now, grants, issued_tickets, frames, requests_served, cleaner,
                   history>>

ConsumeRemove(c) ==
    LET ticket == conn[c].request.ticket
    IN  /\ Step(c, "consume_remove",
                Reply(c, [kind |-> "ConsumeTicketReply", consumed |-> TRUE,
                          audit_id |-> 0]))
        /\ issued_tickets' = Remove(issued_tickets, ticket)
        /\ consume_ok' = [consume_ok EXCEPT ![ticket] = @ + 1]
        /\ UNCHANGED <<boot, now, grants, consumed_tickets, frames, requests_served,
                       cleaner, authorized, redeem_ok, redeemed_frames,
                       ever_issued, redeem_reply>>

(***************************************************************************)
(* handle_compute_seal (with RegisteredFrameTable::update) and             *)
(* handle_verify_seal.                                                     *)
(***************************************************************************)
\* Mutant: handle_compute_seal without the registration test.
ComputeSealUnchecked(c) ==
    /\ Step(c, "compute_seal", Goto(c, "update_contains"))
    /\ UNCHANGED <<boot, now, tables, requests_served, cleaner, history>>

\* Mutant: handle_compute_seal inserts the frame instead of testing for it.
ComputeSealUpsert(c) ==
    LET r == conn[c].request
    IN  /\ Step(c, "compute_seal", Goto(c, "update_contains"))
        /\ frames' = Insert(frames, r.frame_id,
                            [level |-> r.level, data_digest |-> r.data_digest])
        /\ UNCHANGED <<boot, now, grants, issued_tickets, consumed_tickets,
                       requests_served, cleaner, history>>

ComputeSealContains(c) ==
    LET r == conn[c].request
    IN  /\ Step(c, "compute_seal",
                IF r.frame_id \notin DOMAIN frames
                THEN Reply(c, FrameNotRegisteredResponse(r.frame_id))
                ELSE Goto(c, "update_contains"))
        /\ UNCHANGED <<boot, now, tables, requests_served, cleaner, history>>

\* Mutant: update without the contains test.
UpdateUpserts(c) ==
    /\ Step(c, "update_contains", Goto(c, "update_insert"))
    /\ UNCHANGED <<boot, now, tables, requests_served, cleaner, history>>

UpdateContains(c) ==
    LET r == conn[c].request
    IN  /\ Step(c, "update_contains",
                IF r.frame_id \notin DOMAIN frames
                THEN Reply(c, RequestFailedResponse(
                                 <<"Cannot update unknown frame: ", r.frame_id>>))
                ELSE Goto(c, "update_insert"))
        /\ UNCHANGED <<boot, now, tables, requests_served, cleaner, history>>

\* Mutant: update answers without writing the metadata.
UpdateInsertSkipped(c) ==
    LET r == conn[c].request
    IN  /\ Step(c, "update_insert",
                Reply(c, [kind |-> "ComputeSealReply",
                          seal |-> compute_seal(r.frame_id, r.level, r.data_digest),
                          audit_id |-> 0]))
        /\ UNCHANGED <<boot, now, tables, requests_served, cleaner, history>>

UpdateInsert(c) ==
    LET r == conn[c].request
    IN  /\ Step(c, "update_insert",
                Reply(c, [kind |-> "ComputeSealReply",
                          seal |-> compute_seal(r.frame_id, r.level, r.data_digest),
                          audit_id |-> 0]))
        /\ frames' = Insert(frames, r.frame_id,
                            [level |-> r.level, data_digest |-> r.data_digest])
        /\ UNCHANGED <<boot, now, grants, issued_tickets, consumed_tickets,
                       requests_served, cleaner, history>>

\* Mutant: the seal is verified against the metadata the frame table holds.
VerifySealAgainstTable(c) ==
    LET r == conn[c].request
    IN  /\ Step(c, "verify_seal",
                IF r.frame_id \notin DOMAIN frames
                THEN Reply(c, FrameNotRegisteredResponse(r.frame_id))
                ELSE Reply(c, [kind |-> "VerifySealReply",
                               valid |-> verify_seal(r.frame_id,
                                                     frames[r.frame_id].level,
                                                     frames[r.frame_id].data_digest,
                                                     r.seal),
                               audit_id |-> 0]))
        /\ UNCHANGED <<boot, now, tables, requests_served, cleaner, history>>

\* Mutant: a VerifySeal stores the metadata it was asked about.
VerifySealRecordsMetadata(c) ==
    LET r == conn[c].request
    IN  /\ Step(c, "verify_seal",
                IF r.frame_id \notin DOMAIN frames
                THEN Reply(c, FrameNotRegisteredResponse(r.frame_id))
                ELSE Reply(c, [kind |-> "VerifySealReply",
                               valid |-> verify_seal(r.frame_id, r.level,
                                                     r.data_digest, r.seal),
                               audit_id |-> 0]))
        /\ frames' = IF r.frame_id \notin DOMAIN frames THEN frames
                      ELSE Insert(frames, r.frame_id,
                                  [level |-> r.level, data_digest |-> r.data_digest])
        /\ UNCHANGED <<boot, now, grants, issued_tickets, consumed_tickets,
                       requests_served, cleaner, history>>

VerifySeal(c) ==
    LET r == conn[c].request
    IN  /\ Step(c, "verify_seal",
                IF r.frame_id \notin DOMAIN frames
                THEN Reply(c, FrameNotRegisteredResponse(r.frame_id))
                ELSE Reply(c, [kind |-> "VerifySealReply",
                               valid |-> verify_seal(r.frame_id, r.level,
                                                     r.data_digest, r.seal),
                               audit_id |-> 0]))
        /\ UNCHANGED <<boot, now, tables, requests_served, cleaner, history>>

\* handle_health_check; start_time is instant 0.
HealthCheck(c) ==
    /\ Step(c, "health_check",
            Reply(c, [kind |-> "HealthCheckReply", status |-> "healthy",
                      uptime_secs |-> now, requests_served |-> requests_served]))
    /\ UNCHANGED <<boot, now, tables, requests_served, cleaner, history>>

(***************************************************************************)
(* The clock, and a caller of the two cleanup_expired methods.  Each       *)
(* DashMap::retain is one step; the ticket table's two retains share the   *)
(* `now` read before the first.                                            *)
(***************************************************************************)
Tick ==
    /\ now < MaxTime
    /\ now' = now + 1
    /\ UNCHANGED <<boot, tables, requests_served, conn, cleaner, history>>

\* Mutant: the cleanup also empties the frame table.
GrantCleanupDropsFrames ==
    /\ cleaner.pc = "idle"
    /\ grants' = RetainGrants(grants, now)
    /\ frames' = EmptyMap
    /\ UNCHANGED <<boot, now, issued_tickets, consumed_tickets, requests_served,
                   conn, cleaner, history>>

GrantCleanup ==
    /\ cleaner.pc = "idle"
    /\ grants' = RetainGrants(grants, now)
    /\ UNCHANGED <<boot, now, issued_tickets, consumed_tickets, frames,
                   requests_served, conn, cleaner, history>>

TicketCleanupIssued ==
    /\ cleaner.pc = "idle"
    /\ issued_tickets' = RetainTickets(issued_tickets, now)
    /\ cleaner' = [pc |-> "retain_consumed", now |-> now]
    /\ UNCHANGED <<boot, now, grants, consumed_tickets, frames, requests_served,
                   conn, history>>

TicketCleanupConsumed ==
    /\ cleaner.pc = "retain_consumed"
    /\ consumed_tickets' = RetainTickets(consumed_tickets, cleaner.now)
    /\ cleaner' = [pc |-> "idle", now |-> 0]
    /\ UNCHANGED <<boot, now, grants, issued_tickets, frames, requests_served,
                   conn, history>>

(***************************************************************************)
(* handle_client up to the dispatch as one step, for a connection of the   *)
(* authorized UID that delivers a well-formed request whose HMAC verifies: *)
(* none of the steps before requests_served.fetch_add touches shared state,*)
(* so running them together loses no interleaving of the handlers.         *)
(***************************************************************************)
Receive(c, requests, cap) ==
    /\ main.pc = "accept"
    /\ conn[c].pc \in RestPcs
    /\ requests_served < cap
    /\ \E request \in requests :
          /\ validate_request_auth(request)
          /\ request.op = "authorize_construct" =>
                Cardinality(DOMAIN authorized) + Cardinality(AuthorizeInFlight)
                    < MaxGrants
          /\ conn' = [conn EXCEPT ![c] =
                        [IdleConn EXCEPT !.pc = request.op, !.request = request]]
    /\ requests_served' = requests_served + 1
    /\ UNCHANGED <<boot, now, tables, cleaner, history>>

\* The server under concurrent connections.
Next ==
    \/ \E c \in Conns :
          \/ Receive(c, Requests, MaxRequests)
          \/ Authorize(c)
          \/ RedeemRemove(c)
          \/ RedeemCheck(c)
          \/ TicketsIssue(c)
          \/ RegisterFromGrant(c)
          \/ ConsumeCheckIssued(c)
          \/ ConsumeCheckConsumed(c)
          \/ ConsumeInsert(c)
          \/ ConsumeRemove(c)
          \/ ComputeSealContains(c)
          \/ UpdateContains(c)
          \/ UpdateInsert(c)
          \/ VerifySeal(c)
          \/ HealthCheck(c)
          \/ WriteResponse(c)
    \/ Tick
    \/ GrantCleanup
    \/ TicketCleanupIssued
    \/ TicketCleanupConsumed

Spec == Init /\ [][Next]_vars

\* One connection at a time, every step of handle_client on its own.
ListenerNext ==
    \/ Accept(1)
    \/ PeerCredCheck(1)
    \/ ReadRequest(1)
    \/ HandleRequest(1)
    \/ Authorize(1)
    \/ RedeemRemove(1)
    \/ RedeemCheck(1)
    \/ TicketsIssue(1)
    \/ RegisterFromGrant(1)
    \/ ConsumeCheckIssued(1)
    \/ ConsumeCheckConsumed(1)
    \/ ConsumeInsert(1)
    \/ ConsumeRemove(1)
    \/ ComputeSealContains(1)
    \/ UpdateContains(1)
    \/ UpdateInsert(1)
    \/ VerifySeal(1)
    \/ HealthCheck(1)
    \/ WriteResponse(1)
    \/ Tick
    \/ GrantCleanup
    \/ TicketCleanupIssued
    \/ TicketCleanupConsumed

ListenerSpec == Init /\ [][ListenerNext]_vars

(***************************************************************************)
(* Two connections at a time, every step of handle_client on its own: the  *)
(* handlers of concurrent connections reach requests_served.fetch_add in   *)
(* any order.                                                              *)
(***************************************************************************)
CounterNext ==
    \E c \in Conns :
        \/ Accept(c)
        \/ PeerCredCheck(c)
        \/ ReadRequest(c)
        \/ HandleRequest(c)
        \/ Authorize(c)
        \/ RedeemRemove(c)
        \/ RedeemCheck(c)
        \/ TicketsIssue(c)
        \/ RegisterFromGrant(c)
        \/ ConsumeCheckIssued(c)
        \/ ConsumeCheckConsumed(c)
        \/ ConsumeInsert(c)
        \/ ConsumeRemove(c)
        \/ ComputeSealContains(c)
        \/ UpdateContains(c)
        \/ UpdateInsert(c)
        \/ VerifySeal(c)
        \/ HealthCheck(c)
        \/ WriteResponse(c)

CounterSpec == Init /\ [][CounterNext]_vars

(***************************************************************************)
(* The grant table under NumTasks concurrent callers: the server with only *)
(* AuthorizeConstruct and RedeemGrant requests arriving.                   *)
(***************************************************************************)
GrantRequests == OfOps(Requests, {"authorize_construct", "redeem_grant"})

GrantNext ==
    \/ \E c \in Tasks :
          \/ Receive(c, GrantRequests, MaxGrantCalls)
          \/ Authorize(c)
          \/ RedeemRemove(c)
          \/ RedeemCheck(c)
          \/ TicketsIssue(c)
          \/ RegisterFromGrant(c)
          \/ WriteResponse(c)
    \/ Tick
    \/ GrantCleanup

GrantSpec == Init /\ [][GrantNext]_vars

(***************************************************************************)
(* The grant table holding several grants at once: the server with         *)
(* AuthorizeConstruct and RedeemGrant requests arriving on two             *)
(* connections, up to MaxPairGrants grants authorized.                     *)
(***************************************************************************)
PairGrantIds == 0..MaxPairGrants
PairRequests ==
    {WithAuth(r, compute_request_auth(r)) :
        r \in [op : {"authorize_construct"}, frame_id : FrameIds, level : Levels,
               data_digest : Digests]
              \cup [op : {"redeem_grant"}, grant_id : PairGrantIds]}

PairInit ==
    /\ now = 0
    /\ grants = EmptyMap
    /\ issued_tickets = EmptyMap
    /\ consumed_tickets = EmptyMap
    /\ frames = EmptyMap
    /\ requests_served = 0
    /\ conn = [c \in Tasks |-> IdleConn]
    /\ cleaner = [pc |-> "idle", now |-> 0]
    /\ authorized = EmptyMap
    /\ redeem_ok = [g \in PairGrantIds |-> 0]
    /\ consume_ok = [t \in PairGrantIds |-> 0]
    /\ redeemed_frames = {}
    /\ ever_issued = {}
    /\ redeem_reply = EmptyMap
    /\ key_file = BootedFile
    /\ daemon = [d \in Daemons |-> IF d = 1 THEN BootedDaemon ELSE IdleDaemon]
    /\ ListeningInit

\* handle_client up to the dispatch, as Receive, for the requests above.
ReceivePair(c) ==
    /\ main.pc = "accept"
    /\ conn[c].pc \in RestPcs
    /\ requests_served < MaxPairCalls
    /\ \E request \in PairRequests :
          /\ validate_request_auth(request)
          /\ request.op = "authorize_construct" =>
                Cardinality(DOMAIN authorized) + Cardinality(AuthorizeInFlight)
                    < MaxPairGrants
          /\ conn' = [conn EXCEPT ![c] =
                        [IdleConn EXCEPT !.pc = request.op, !.request = request]]
    /\ requests_served' = requests_served + 1
    /\ UNCHANGED <<boot, now, tables, cleaner, history>>

PairNext ==
    \/ \E c \in Conns :
          \/ ReceivePair(c)
          \/ Authorize(c)
          \/ RedeemRemove(c)
          \/ RedeemCheck(c)
          \/ TicketsIssue(c)
          \/ RegisterFromGrant(c)
          \/ WriteResponse(c)
    \/ Tick

PairSpec == PairInit /\ [][PairNext]_vars

(***************************************************************************)
(* The ticket table under NumTasks concurrent callers: the server with     *)
(* only ConsumeConstructionTicket requests arriving, the tickets being     *)
(* issued as handle_redeem_grant issues them, each a fresh RNG value.      *)
(***************************************************************************)
IssueFresh ==
    LET ticket == Cardinality(ever_issued) + 1
    IN  /\ ticket <= MaxTickets
        /\ issued_tickets' = Insert(issued_tickets, ticket, now + grant_ttl_secs)
        /\ ever_issued' = ever_issued \cup {ticket}
        /\ UNCHANGED <<boot, now, grants, consumed_tickets, frames, requests_served,
                       conn, cleaner, authorized, redeem_ok, consume_ok,
                       redeemed_frames, redeem_reply>>

TicketRequests == OfOps(Requests, {"consume_construction_ticket"})

TicketNext ==
    \/ \E c \in Tasks :
          \/ Receive(c, TicketRequests, MaxTicketCalls)
          \/ ConsumeCheckIssued(c)
          \/ ConsumeCheckConsumed(c)
          \/ ConsumeInsert(c)
          \/ ConsumeRemove(c)
          \/ WriteResponse(c)
    \/ IssueFresh
    \/ Tick
    \/ TicketCleanupIssued
    \/ TicketCleanupConsumed

TicketSpec == Init /\ [][TicketNext]_vars

(***************************************************************************)
(* The server as Server::run drives it: connection tasks and the clock.    *)
(* run spawns handle_client for every accepted connection and nothing      *)
(* else, so no task of the running server calls cleanup_expired.  The      *)
(* requests are those of a grant's life: authorize, redeem, consume.       *)
(***************************************************************************)
RunRequests ==
    OfOps(Requests, {"authorize_construct", "redeem_grant",
                     "consume_construction_ticket"})

\* The steps of the handler of connection c, after the dispatch.
Handle(c) ==
    \/ Authorize(c)
    \/ RedeemRemove(c)
    \/ RedeemCheck(c)
    \/ TicketsIssue(c)
    \/ RegisterFromGrant(c)
    \/ ConsumeCheckIssued(c)
    \/ ConsumeCheckConsumed(c)
    \/ ConsumeInsert(c)
    \/ ConsumeRemove(c)
    \/ WriteResponse(c)

RunNext ==
    \/ \E c \in Conns :
          \/ Receive(c, RunRequests, MaxRunCalls)
          \/ Handle(c)
    \/ Tick

RunSpec == Init /\ [][RunNext]_vars

\* The runtime runs every spawned task to its end, and time passes; no peer
\* has to send anything.
RunFairSpec ==
    /\ RunSpec
    /\ WF_vars(Tick)
    /\ \A c \in Conns : WF_vars(Handle(c))

(***************************************************************************)
(* The seal handlers on one frame whose level changes: the running server  *)
(* with AuthorizeConstruct, RedeemGrant, ComputeSeal and VerifySeal        *)
(* requests for frame "f1" at two levels.                                  *)
(***************************************************************************)
SealLevels == Levels \cup {4}
SealFrames == {"f1"}
SealSeals ==
    {compute_seal(f, l, d) : f \in SealFrames, l \in SealLevels, d \in Digests}
        \cup {ForgedSeal}
SealRequests ==
    OfOps(Signed(Unsigned(SealFrames, SealLevels, Digests, SealSeals)),
          {"authorize_construct", "redeem_grant", "compute_seal", "verify_seal"})

SealNext ==
    \E c \in Conns :
        \/ Receive(c, SealRequests, MaxSealCalls)
        \/ Authorize(c)
        \/ RedeemRemove(c)
        \/ RedeemCheck(c)
        \/ TicketsIssue(c)
        \/ RegisterFromGrant(c)
        \/ ComputeSealContains(c)
        \/ UpdateContains(c)
        \/ UpdateInsert(c)
        \/ VerifySeal(c)
        \/ WriteResponse(c)

SealSpec == Init /\ [][SealNext]_vars

(***************************************************************************)
(* What a peer does with a redeemed grant: the running server with         *)
(* AuthorizeConstruct, RedeemGrant, ConsumeConstructionTicket and          *)
(* ComputeSeal requests, and no call of cleanup_expired.                   *)
(***************************************************************************)
RedeemedRequests ==
    OfOps(Signed(Unsigned(SealFrames, Levels, Digests, {})),
          {"authorize_construct", "redeem_grant", "consume_construction_ticket",
           "compute_seal"})

RedeemedNext ==
    \E c \in Conns :
        \/ Receive(c, RedeemedRequests, MaxRedeemedCalls)
        \/ Authorize(c)
        \/ RedeemRemove(c)
        \/ RedeemCheck(c)
        \/ TicketsIssue(c)
        \/ RegisterFromGrant(c)
        \/ ConsumeCheckIssued(c)
        \/ ConsumeCheckConsumed(c)
        \/ ConsumeInsert(c)
        \/ ConsumeRemove(c)
        \/ ComputeSealContains(c)
        \/ UpdateContains(c)
        \/ UpdateInsert(c)
        \/ WriteResponse(c)

RedeemedSpec == Init /\ [][RedeemedNext]_vars

(***************************************************************************)
(* The frame table under two concurrent callers of its two writers:        *)
(* update, with any frame_id, and register_from_grant, with the request of *)
(* a grant whose redeem returned Ok.  A caller is a task at the first step *)
(* of the method; WriteResponse is its return.                             *)
(***************************************************************************)
CallUpdate(c) ==
    /\ conn[c].pc \in RestPcs
    /\ \E f \in FrameIds, l \in SealLevels, d \in Digests :
          conn' = [conn EXCEPT ![c] =
                     [IdleConn EXCEPT !.pc = "update_contains",
                                      !.request = [op |-> "compute_seal",
                                                   frame_id |-> f, level |-> l,
                                                   data_digest |-> d]]]
    /\ UNCHANGED <<boot, now, tables, requests_served, cleaner, history>>

CallRegisterFromGrant(c) ==
    /\ conn[c].pc \in RestPcs
    /\ \E f \in FrameIds, l \in SealLevels, d \in Digests, g \in GrantIds :
          /\ conn' = [conn EXCEPT ![c] =
                        [IdleConn EXCEPT
                            !.pc = "register",
                            !.request = [op |-> "redeem_grant", grant_id |-> g],
                            !.local = [tag |-> "redeem",
                                       grant |-> [request |-> [frame_id |-> f,
                                                               level |-> l,
                                                               data_digest |-> d],
                                                  construction_ticket |-> g,
                                                  expires_at |-> now + grant_ttl_secs],
                                       called_at |-> now]]]
          /\ redeemed_frames' = redeemed_frames \cup {f}
    /\ UNCHANGED <<boot, now, tables, requests_served, cleaner, authorized,
                   redeem_ok, consume_ok, ever_issued, redeem_reply>>

FrameNext ==
    \E c \in Conns :
        \/ CallUpdate(c)
        \/ UpdateContains(c)
        \/ UpdateInsert(c)
        \/ CallRegisterFromGrant(c)
        \/ RegisterFromGrant(c)
        \/ WriteResponse(c)

FrameSpec == Init /\ [][FrameNext]_vars

(***************************************************************************)
(* server.rs, load_or_init_session_key, step by step.  The calls run in    *)
(* different processes, so another call's file operation may fall between  *)
(* any two of these: the exists() test, the open-and-read of the reload    *)
(* path, the O_CREAT|O_EXCL open, the write, the metadata() test.          *)
(***************************************************************************)
server == <<now, tables, requests_served, conn, cleaner, history>>

RECURSIVE BitAnd(_, _)
BitAnd(a, b) ==
    IF a = 0 \/ b = 0 THEN 0
    ELSE (a % 2) * (b % 2) + 2 * BitAnd(a \div 2, b \div 2)

\* open(2) with mode 0o640: the file gets mode & ~umask.
CreatedMode(umask) == KeyFileMode - BitAnd(KeyFileMode, umask)

\* rng.fill: 32 bytes no other call draws.
FreshKey(d) == KeyBytes(KeyLen, <<"rng", d>>)

Return(d, result) == [daemon[d] EXCEPT !.pc = "done", !.result = result]

\* if session_key_path.exists()
KeyExists(d) ==
    /\ daemon[d].pc = "start"
    /\ daemon' = [daemon EXCEPT ![d].pc = IF key_file.exists THEN "load" ELSE "create"]
    /\ UNCHANGED <<server, key_file, listening>>

\* Mutant: the reload path without the length test.
KeyLoadAnyLength(d) ==
    /\ daemon[d].pc = "load"
    /\ daemon' = [daemon EXCEPT ![d] =
                    [Return(d, "Ok") EXCEPT !.key = key_file.content]]
    /\ UNCHANGED <<server, key_file, listening>>

\* The reload path: File::open, read_to_end, the length test, the return.
KeyLoad(d) ==
    /\ daemon[d].pc = "load"
    /\ daemon' = [daemon EXCEPT ![d] =
                    IF key_file.content.len # KeyLen
                    THEN [Return(d, "Err") EXCEPT !.key = key_file.content]
                    ELSE [Return(d, "Ok") EXCEPT !.key = key_file.content]]
    /\ UNCHANGED <<server, key_file, listening>>

\* Mutant: the file is opened with create and truncate, not create_new.
KeyCreateTruncating(d) ==
    /\ daemon[d].pc = "create"
    /\ key_file' = KeyFile(CreatedMode(daemon[d].umask), NoKey, d)
    /\ daemon' = [daemon EXCEPT ![d] =
                    [daemon[d] EXCEPT !.pc = "write", !.key = FreshKey(d),
                                      !.created = TRUE]]
    /\ UNCHANGED <<server, listening>>

\* The key is drawn, then OpenOptions::create_new(true).mode(0o640).open.
KeyCreate(d) ==
    /\ daemon[d].pc = "create"
    /\ IF key_file.exists
       THEN /\ daemon' = [daemon EXCEPT ![d] =
                            [Return(d, "Err") EXCEPT !.key = FreshKey(d)]]
            /\ UNCHANGED key_file
       ELSE /\ key_file' = KeyFile(CreatedMode(daemon[d].umask), NoKey, d)
            /\ daemon' = [daemon EXCEPT ![d] =
                            [daemon[d] EXCEPT !.pc = "write", !.key = FreshKey(d),
                                              !.created = TRUE]]
    /\ UNCHANGED <<server, listening>>

\* file.write_all(&session_key) and the fsyncs.
KeyWrite(d) ==
    /\ daemon[d].pc = "write"
    /\ key_file' = [key_file EXCEPT !.content = daemon[d].key]
    /\ daemon' = [daemon EXCEPT ![d].pc = "verify"]
    /\ UNCHANGED <<server, listening>>

\* metadata(): (mode & 0o777) != 0o640 is fatal; otherwise the key is returned.
KeyVerify(d) ==
    /\ daemon[d].pc = "verify"
    /\ daemon' = [daemon EXCEPT ![d] =
                    IF BitAnd(key_file.mode, PermMask) # KeyFileMode
                    THEN Return(d, "Err")
                    ELSE Return(d, "Ok")]
    /\ UNCHANGED <<server, key_file, listening>>

\* What the path may hold before the first call, and the umask of a caller.
ProvisionedModes == {KeyFileMode, KeyFileMode + 4}     \* 0o640, 0o644
ProvisionedLens == {KeyLen, KeyLen \div 2}
InitialFiles ==
    {NoFile} \cup {KeyFile(m, KeyBytes(l, "provisioned"), 0) :
                     m \in ProvisionedModes, l \in ProvisionedLens}
Umasks == {DefaultUmask, RestrictiveUmask}

KeyInit ==
    /\ ServerInit
    /\ key_file \in InitialFiles
    /\ daemon \in [Daemons -> {[IdleDaemon EXCEPT !.umask = u] : u \in Umasks}]
    /\ ListeningInit

KeyNext ==
    \E d \in Daemons :
        \/ KeyExists(d)
        \/ KeyLoad(d)
        \/ KeyCreate(d)
        \/ KeyWrite(d)
        \/ KeyVerify(d)

KeySpec == KeyInit /\ [][KeyNext]_vars

(***************************************************************************)
(* main.rs and server.rs: the start of the process.  main calls            *)
(* Server::new (Secrets::generate, then load_or_init_session_key) and      *)
(* Server::run (remove the stale socket, bind, set the mode, accept loop). *)
(* Every `?` and every expect() ends the process.  The process is caller 1 *)
(* of load_or_init_session_key; caller 2 is another process on the path.   *)
(***************************************************************************)
Exit(error) == [main EXCEPT !.pc = "exit", !.error = error]

\* bind(2) creates the socket file with mode 0o777 & ~umask.
BoundMode(umask) == PermMask - BitAnd(PermMask, umask)

\* Secrets::generate: rng.fill(..).expect("RNG failure"), twice.
SecretsGenerate ==
    /\ main.pc = "generate"
    /\ \E rng_ok \in BOOLEAN :
          main' = IF rng_ok THEN [main EXCEPT !.pc = "session_key"]
                  ELSE Exit("RNG failure")
    /\ UNCHANGED <<server, key_file, daemon, socket_file, secrets_call>>

\* The steps of one call of load_or_init_session_key.
LoadOrInit(d) ==
    \/ KeyExists(d)
    \/ KeyLoad(d)
    \/ KeyCreate(d)
    \/ KeyWrite(d)
    \/ KeyVerify(d)

\* Mutant: Server::new goes on whatever load_or_init_session_key returned.
ServerNewUnchecked ==
    /\ main.pc = "session_key"
    /\ daemon[1].pc = "done"
    /\ main' = [main EXCEPT !.pc = "remove_stale"]
    /\ UNCHANGED <<server, key_file, daemon, socket_file, secrets_call>>

\* Server::new: load_or_init_session_key(&config)?, and main's Server::new(config)?
ServerNew ==
    /\ main.pc = "session_key"
    /\ daemon[1].pc = "done"
    /\ main' = IF daemon[1].result = "Ok" THEN [main EXCEPT !.pc = "remove_stale"]
               ELSE Exit("session key")
    /\ UNCHANGED <<server, key_file, daemon, socket_file, secrets_call>>

\* run: if socket_path.exists() { remove_file(socket_path)? }
RemoveStale ==
    /\ main.pc = "remove_stale"
    /\ IF socket_file.exists
       THEN \E removed \in BOOLEAN :
               IF removed
               THEN /\ socket_file' = NoFile
                    /\ main' = [main EXCEPT !.pc = "bind", !.unlinked = TRUE]
               ELSE /\ main' = Exit("Failed to remove stale socket")
                    /\ UNCHANGED socket_file
       ELSE /\ main' = [main EXCEPT !.pc = "bind"]
            /\ UNCHANGED socket_file
    /\ UNCHANGED <<server, key_file, daemon, secrets_call>>

\* run: UnixListener::bind(socket_path)?
Bind ==
    /\ main.pc = "bind"
    /\ \E bound \in BOOLEAN :
          IF bound /\ ~socket_file.exists
          THEN /\ socket_file' = SocketFile(BoundMode(daemon[1].umask), TRUE)
               /\ main' = [main EXCEPT !.pc = "set_permissions"]
          ELSE /\ main' = Exit("Failed to bind Unix socket")
               /\ UNCHANGED socket_file
    /\ UNCHANGED <<server, key_file, daemon, secrets_call>>

\* Mutant: the result of set_permissions is dropped.
SetPermissionsUnchecked ==
    /\ main.pc = "set_permissions"
    /\ \E changed \in BOOLEAN :
          /\ socket_file' = IF changed THEN [socket_file EXCEPT !.mode = SocketMode]
                            ELSE socket_file
          /\ main' = [main EXCEPT !.pc = "accept"]
    /\ UNCHANGED <<server, key_file, daemon, secrets_call>>

\* run: metadata(socket_path)?, set_mode(0o600), set_permissions(..)?
SetPermissions ==
    /\ main.pc = "set_permissions"
    /\ \E changed \in BOOLEAN :
          IF changed
          THEN /\ socket_file' = [socket_file EXCEPT !.mode = SocketMode]
               /\ main' = [main EXCEPT !.pc = "accept"]
          ELSE /\ main' = Exit("Failed to set socket permissions to 0600")
               /\ socket_file' = [socket_file EXCEPT !.listener = FALSE]
    /\ UNCHANGED <<server, key_file, daemon, secrets_call>>

\* What socket_path may hold before run: nothing, or the socket of an earlier
\* run that no process listens on.
StaleSockets == {NoFile, SocketFile(BoundMode(DefaultUmask), FALSE)}

BootInit ==
    /\ ServerInit
    /\ key_file \in InitialFiles
    /\ daemon \in [Daemons -> {[IdleDaemon EXCEPT !.umask = u] : u \in Umasks}]
    /\ socket_file \in StaleSockets
    /\ main = Main("generate", "none")
    /\ secrets_call = NoCall

BootNext ==
    \/ SecretsGenerate
    \/ main.pc = "session_key" /\ (LoadOrInit(1) \/ LoadOrInit(2))
    \/ ServerNew
    \/ RemoveStale
    \/ Bind
    \/ SetPermissions
    \/ Accept(1)
    \/ PeerCredCheck(1)
    \/ ReadRequest(1)
    \/ HandleRequest(1)
    \/ Authorize(1)
    \/ RedeemRemove(1)
    \/ RedeemCheck(1)
    \/ TicketsIssue(1)
    \/ RegisterFromGrant(1)
    \/ ConsumeCheckIssued(1)
    \/ ConsumeCheckConsumed(1)
    \/ ConsumeInsert(1)
    \/ ConsumeRemove(1)
    \/ ComputeSealContains(1)
    \/ UpdateContains(1)
    \/ UpdateInsert(1)
    \/ VerifySeal(1)
    \/ HealthCheck(1)
    \/ WriteResponse(1)

BootSpec == BootInit /\ [][BootNext]_vars

(***************************************************************************)
(* crypto.rs, Secrets::compute_seal and Secrets::verify_seal as functions: *)
(* one caller computes the seal of a triple, then verifies a candidate     *)
(* seal against a triple, and remembers the call before.                   *)
(***************************************************************************)
CryptoFrames == FrameIds
CryptoLevels == {3, 4, 3 + 256}
CryptoDigests == Digests \cup {"d55"}

\* Byte strings a peer can make of a seal: its first half, and the seal with
\* one more byte.
Prefix(seal) == [len |-> seal.len \div 2, mac |-> <<"prefix", seal.mac>>]
Extended(seal) == [len |-> seal.len + 1, mac |-> <<"extended", seal.mac>>]
Candidates(seal) == {seal, Prefix(seal), Extended(seal), ForgedSeal}

CallComputeSeal ==
    /\ secrets_call.pc \in {"idle", "verified"}
    /\ \E f \in CryptoFrames, l \in CryptoLevels, d \in CryptoDigests :
          secrets_call' =
              [pc |-> "computed", frame_id |-> f, level |-> l, data_digest |-> d,
               seal |-> compute_seal(f, l, d),
               before |-> IF secrets_call.pc = "idle" THEN NoCall
                          ELSE [pc |-> "computed",
                                frame_id |-> secrets_call.frame_id,
                                level |-> secrets_call.level,
                                data_digest |-> secrets_call.data_digest,
                                seal |-> secrets_call.seal]]
    /\ UNCHANGED <<server, key_file, daemon, socket_file, main>>

CallVerifySeal ==
    /\ secrets_call.pc = "computed"
    /\ \E f \in CryptoFrames, l \in CryptoLevels, d \in CryptoDigests,
          candidate \in Candidates(secrets_call.seal) :
          secrets_call' =
              [pc |-> "verified", frame_id |-> secrets_call.frame_id,
               level |-> secrets_call.level,
               data_digest |-> secrets_call.data_digest,
               seal |-> secrets_call.seal,
               against |-> [frame_id |-> f, level |-> l, data_digest |-> d],
               candidate |-> candidate,
               valid |-> verify_seal(f, l, d, candidate)]
    /\ UNCHANGED <<server, key_file, daemon, socket_file, main>>

CryptoNext == CallComputeSeal \/ CallVerifySeal

CryptoSpec == Init /\ [][CryptoNext]_vars

(***************************************************************************)
(* Properties.                                                             *)
(***************************************************************************)
IsRequest(c, op) == conn[c].request.op = op
Replied(c) == conn[c].pc = "write"
RepliedError(c) == Replied(c) /\ conn[c].response.kind = "Error"

\* C1: for every grant_id, at most one redeem(grant_id) returns Ok, under any
\* interleaving of redeem calls and cleanups (GrantSpec).
C1_RedeemAtMostOnce == \A g \in AllGrantIds : redeem_ok[g] <= 1

\* C1, its case: a grant was redeemed and another redeem of it failed.
C1_Witness ==
    \E c \in Tasks :
        /\ IsRequest(c, "redeem_grant")
        /\ RepliedError(c)
        /\ redeem_ok[conn[c].request.grant_id] = 1

\* C2, as claimed: for every ticket, at most one consume(ticket) returns Ok,
\* under any interleaving of consume calls on different worker threads
\* (TicketSpec).
C2_ConsumeAtMostOnce == \A t \in AllTickets : consume_ok[t] <= 1

\* C3: a consume of a ticket never passed to issue() fails with the reason
\* that contains "never issued", as the Error reply of the handler, and
\* changes neither the issued nor the consumed set.
C3_NeverIssuedRejected ==
    [][\A c \in Tasks :
          (/\ conn[c].pc = "consume_construction_ticket"
           /\ conn[c].request.ticket \notin ever_issued
           /\ conn'[c] # conn[c])
          => /\ conn'[c].pc = "write"
             /\ conn'[c].response.kind = "Error"
             /\ Contains(conn'[c].response.reason, "never issued")
             /\ issued_tickets' = issued_tickets
             /\ consumed_tickets' = consumed_tickets]_vars

\* C3, its case: the reply to a consume of a never-issued ticket.
C3_Witness ==
    \E c \in Tasks :
        /\ IsRequest(c, "consume_construction_ticket")
        /\ conn[c].request.ticket \notin ever_issued
        /\ RepliedError(c)
        /\ Contains(conn[c].response.reason, "never issued")

\* C4: a ComputeSeal or VerifySeal for a frame_id that no successful redeem
\* returned is answered Error "Frame not registered", never with a seal or
\* a verdict.
C4_UnregisteredFrameRefused ==
    [][\A c \in Tasks :
          (/\ conn[c].pc \in {"compute_seal", "verify_seal"}
           /\ conn[c].request.frame_id \notin redeemed_frames
           /\ conn'[c] # conn[c])
          => /\ conn'[c].pc = "write"
             /\ conn'[c].response.kind = "Error"
             /\ conn'[c].response.error = <<"Frame not registered">>]_vars

\* C4, its case: with another frame registered, a seal request for a frame
\* never redeemed has been refused.
C4_Witness ==
    \E c \in Tasks :
        /\ conn[c].request.op \in {"compute_seal", "verify_seal"}
        /\ conn[c].request.frame_id \notin redeemed_frames
        /\ RepliedError(c)
        /\ conn[c].response.error = <<"Frame not registered">>
        /\ DOMAIN frames # {}

\* C5: every key of the frame table is the frame_id of a grant whose redeem
\* succeeded, and a key is added only by the RedeemGrant handler of such a
\* grant.
C5_FramesFromRedeemOnly ==
    /\ [](DOMAIN frames \subseteq redeemed_frames)
    /\ [][\A f \in (DOMAIN frames') \ (DOMAIN frames) :
             \E c \in Tasks :
                /\ conn[c].pc = "register"
                /\ IsRequest(c, "redeem_grant")
                /\ conn[c].local.grant.request.frame_id = f
                /\ redeem_ok[conn[c].request.grant_id] >= 1]_vars

\* C5, its case: a frame is registered, and a seal request for another frame
\* has run without adding it.
C5_Witness ==
    /\ DOMAIN frames # {}
    /\ \E c \in Tasks :
          /\ conn[c].request.op \in {"compute_seal", "verify_seal"}
          /\ Replied(c)
          /\ conn[c].request.frame_id \notin DOMAIN frames

\* C6: a frame_id in the frame table is in it in every later state.
C6_FramesPermanent ==
    [][\A f \in DOMAIN frames : f \in DOMAIN frames']_vars

\* C6, its case: the frame is still registered after its grant's ticket
\* expired and the cleanup removed it.
C6_Witness ==
    /\ DOMAIN frames # {}
    /\ ever_issued # {}
    /\ DOMAIN issued_tickets = {}
    /\ DOMAIN consumed_tickets = {}
    /\ \A t \in AllTickets : consume_ok[t] = 0
    /\ \A c \in Tasks : conn[c].pc = "idle"

\* C7: a redeem called later than the grant's issue time plus TTL never
\* returns Ok (GrantSpec).
C7_ExpiredNeverRedeemed ==
    \A c \in Tasks :
        conn[c].pc \in {"issue", "register"}
        => conn[c].local.called_at
              <= authorized[conn[c].request.grant_id].expires_at

\* C7, its case: a redeem called after the expiry found the entry and failed.
C7_Witness ==
    \E c \in Tasks :
        /\ IsRequest(c, "redeem_grant")
        /\ RepliedError(c)
        /\ conn[c].local # NoLocal
        /\ conn[c].local.called_at > conn[c].local.grant.expires_at
        /\ Contains(conn[c].response.reason, "expired")

AuthIsHmac(request) == request.auth = compute_request_auth(request)
DispatchPcs ==
    {"authorize_construct", "redeem_grant", "redeem_check", "issue", "register",
     "consume_construction_ticket", "consume_check_consumed", "consume_insert",
     "consume_remove", "compute_seal", "update_contains", "update_insert",
     "verify_seal", "health_check"}

\* C8: an authenticated variant whose auth is not the HMAC of its canonical
\* bytes gets Error{"Authentication failed", "Invalid HMAC signature"} and is
\* never dispatched; the four tables are unchanged (ListenerSpec).
C8_BadHmacRejected ==
    /\ [](\A c \in Tasks :
            (conn[c].pc \in DispatchPcs /\ requires_auth(conn[c].request))
            => AuthIsHmac(conn[c].request))
    /\ [][\A c \in Tasks :
             (/\ conn[c].pc = "handle"
              /\ requires_auth(conn[c].request)
              /\ ~AuthIsHmac(conn[c].request)
              /\ conn'[c] # conn[c])
             => /\ conn'[c].pc = "write"
                /\ conn'[c].response = AuthFailedResponse
                /\ tables' = tables]_vars

\* C8, its case: the reply to a request with a bad auth field.
C8_Witness ==
    \E c \in Tasks :
        /\ Replied(c)
        /\ requires_auth(conn[c].request)
        /\ ~AuthIsHmac(conn[c].request)
        /\ conn[c].response = AuthFailedResponse

\* C9: a connection whose peer UID is not appuser_uid is dropped by the
\* credential check: it never reads, never writes a response, and its only
\* step changes no table and no counter (ListenerSpec).
C9_WrongUidDropped ==
    /\ [](\A c \in Tasks :
            (conn[c].uid # appuser_uid /\ conn[c].pc \notin RestPcs)
            => conn[c].pc = "peercred")
    /\ [][\A c \in Tasks :
             (/\ conn[c].pc = "peercred"
              /\ conn[c].uid # appuser_uid
              /\ conn'[c] # conn[c])
             => /\ conn'[c] = Closed("rejected")
                /\ tables' = tables
                /\ requests_served' = requests_served]_vars

\* C9, its case: a connection of another UID has been dropped.
C9_Witness == \E c \in Tasks : conn[c].pc = "rejected"

\* C10, as claimed: no ticket is in the issued set and in the consumed set,
\* the intermediate states of a consume included (TicketSpec).
C10_TicketSetsDisjoint == DOMAIN issued_tickets \cap DOMAIN consumed_tickets = {}

Returned(d) == daemon[d].pc = "done" /\ daemon[d].result = "Ok"
InitiallyAbsent == ~key_file.exists \/ key_file.creator # 0

\* C17, as claimed: after every successful return of load_or_init_session_key,
\* whether the call created the file or found it, the file has permission
\* bits 0640 and length 32 and holds the returned key (KeySpec).
C17_KeyFileModeAndLength ==
    \A d \in Daemons :
        Returned(d)
        => /\ key_file.exists
           /\ BitAnd(key_file.mode, PermMask) = KeyFileMode
           /\ key_file.content.len = KeyLen
           /\ daemon[d].key = key_file.content

\* C18: a call that finds the file returns the file's 32 bytes and writes
\* nothing; a file that was there before the first call, or that holds its 32
\* bytes, is never changed; a file of another length makes the call fail and
\* is left as it is (KeySpec).
C18_LoadIsIdempotent ==
    /\ [](\A d \in Daemons :
             Returned(d) => /\ daemon[d].key = key_file.content
                            /\ daemon[d].key.len = KeyLen)
    /\ [][/\ (key_file.exists /\ (key_file.creator = 0
                                  \/ key_file.content.len = KeyLen))
             => key_file' = key_file
          /\ \A d \in Daemons :
                (daemon[d].pc = "load" /\ daemon'[d] # daemon[d])
                => /\ key_file' = key_file
                   /\ key_file.content.len # KeyLen => daemon'[d].result = "Err"
                   /\ key_file.content.len = KeyLen
                         => /\ daemon'[d].result = "Ok"
                            /\ daemon'[d].key = key_file.content]_vars

\* C18, its case: the first call created the file and a later call returned
\* the same key from it.
C18_Witness ==
    \E d1, d2 \in Daemons :
        /\ d1 # d2
        /\ Returned(d1) /\ daemon[d1].created /\ key_file.creator = d1
        /\ Returned(d2) /\ ~daemon[d2].created
        /\ daemon[d2].key = daemon[d1].key

\* C19: on a path that is absent at first, under every interleaving of the
\* calls' steps, at most one call creates the file, the file once written is
\* never written again, and any two calls that return Ok return the same key
\* (KeySpec).
C19_ExclusiveCreate ==
    /\ [](InitiallyAbsent
          => /\ Cardinality({d \in Daemons : daemon[d].created}) <= 1
             /\ \A d1, d2 \in Daemons :
                   (Returned(d1) /\ Returned(d2)) => daemon[d1].key = daemon[d2].key)
    /\ [][key_file.exists
          => /\ key_file'.exists
             /\ key_file'.creator = key_file.creator
             /\ key_file'.mode = key_file.mode
             /\ key_file.content # NoKey => key_file'.content = key_file.content]_vars

\* C19, its case: two calls both saw the path absent; one created the file and
\* returned its key, the other drew a key too and failed at the exclusive open.
C19_Witness ==
    \E d1, d2 \in Daemons :
        /\ d1 # d2
        /\ Returned(d1) /\ daemon[d1].created
        /\ daemon[d2].pc = "done" /\ daemon[d2].result = "Err"
        /\ daemon[d2].key = FreshKey(d2)

RepliedTickets == {redeem_reply[g].construction_ticket : g \in DOMAIN redeem_reply}
ConsumePcs ==
    {"consume_construction_ticket", "consume_check_consumed", "consume_insert",
     "consume_remove"}

C20_ExpiredEventuallyRemoved ==
    /\ \A g \in GrantIds :
          (g \in DOMAIN grants /\ now > grants[g].expires_at)
             ~> (g \notin DOMAIN grants)
    /\ \A t \in GrantIds :
          (t \in DOMAIN issued_tickets /\ now > issued_tickets[t])
             ~> (t \notin DOMAIN issued_tickets)
    /\ \A t \in GrantIds :
          (t \in DOMAIN consumed_tickets /\ now > consumed_tickets[t])
             ~> (t \notin DOMAIN consumed_tickets)

\* The grants whose RedeemGrantReply carried this seal for this triple.
RedeemedWith(frame_id, level, data_digest, seal) ==
    {g \in DOMAIN redeem_reply :
        /\ authorized[g].request = [frame_id |-> frame_id, level |-> level,
                                    data_digest |-> data_digest]
        /\ redeem_reply[g].seal = seal}

\* C12: a VerifySeal of the triple of a redeemed grant with the seal its
\* RedeemGrantReply carried replies valid: true, whatever ComputeSeal requests
\* have changed the frame's metadata in between (SealSpec).
C12_RedeemedSealVerifies ==
    [][\A c \in Conns :
          LET r == conn[c].request
          IN  (/\ conn[c].pc = "verify_seal"
               /\ RedeemedWith(r.frame_id, r.level, r.data_digest, r.seal) # {}
               /\ conn'[c] # conn[c])
              => conn'[c].response = [kind |-> "VerifySealReply", valid |-> TRUE,
                                      audit_id |-> 0]]_vars

\* C12, its case: the seal of the redeem verified after a ComputeSeal moved the
\* frame to another level.
C12_Witness ==
    \E c \in Conns :
        LET r == conn[c].request
        IN  /\ IsRequest(c, "verify_seal")
            /\ Replied(c)
            /\ RedeemedWith(r.frame_id, r.level, r.data_digest, r.seal) # {}
            /\ conn[c].response.kind = "VerifySealReply"
            /\ conn[c].response.valid
            /\ frames[r.frame_id].level # r.level

\* C13, as claimed: a RedeemGrant that fails (grant already redeemed, never
\* created, or expired) is answered Error with the error tag "Grant
\* redemption failed" and a reason that tells "not found" or "expired"
\* (GrantSpec).
C13_RedeemFailureTag ==
    \A c \in Tasks :
        (IsRequest(c, "redeem_grant") /\ RepliedError(c))
        => /\ conn[c].response.error = <<"Grant redemption failed">>
           /\ \/ Contains(conn[c].response.reason, "not found")
              \/ Contains(conn[c].response.reason, "expired")

\* C14, as claimed: a connection of the authorized UID that delivered a
\* non-empty request is closed only after a response was written; a decode
\* or handling failure is answered with an Error (ListenerSpec).
C14_NoSilentClose ==
    [][\A c \in Tasks :
          (/\ conn[c].pc \notin RestPcs \cup {"peercred"}
           /\ conn'[c].pc \in RestPcs \ {"eof"})
          => /\ conn[c].pc = "write"
             /\ conn[c].response.kind # "none"]_vars

IsOversized(request) ==
    request.op = "authorize_construct" /\ request.auth = OversizedAuth

\* C15, as claimed: a request larger than max_request_size_bytes is never
\* decoded or dispatched, and what is written for it is an Error whose reason
\* contains "exceeds maximum" (ListenerSpec).
C15_OversizedRejected ==
    \A c \in Tasks :
        IsOversized(conn[c].request)
        => /\ conn[c].pc \notin {"handle"} \cup DispatchPcs
           /\ conn[c].pc = "write"
                 => /\ conn[c].response.kind = "Error"
                    /\ Contains(conn[c].response.reason, "exceeds maximum")

\* The position of a connection in handle_client.
Stage(pc) ==
    CASE pc \in RestPcs -> 0
      [] pc = "peercred" -> 1
      [] pc = "read" -> 2
      [] pc = "handle" -> 3
      [] pc \in DispatchPcs -> 4
      [] pc = "write" -> 5

\* C16: a connection is one-shot: it moves forward only (credential check,
\* read to EOF, handle_request, response), handle_request is entered once and
\* only from the completed read, one response is computed and after it is
\* written the connection is closed (ListenerSpec).
C16_OneShotConnection ==
    /\ [](\A c \in Tasks :
            /\ conn[c].response.kind # "none" <=> conn[c].pc = "write"
            /\ Stage(conn[c].pc) >= 3 <=> conn[c].request.op # "none")
    /\ [][\A c \in Tasks :
             conn'[c] # conn[c]
             => /\ conn'[c].pc = "handle" => conn[c].pc = "read"
                /\ conn'[c].pc = "write" => Stage(conn[c].pc) \in {3, 4}
                /\ conn[c].pc = "write" => conn'[c].pc \in RestPcs
                /\ conn'[c].pc \notin RestPcs
                      => Stage(conn'[c].pc) >= Stage(conn[c].pc)
                /\ conn'[c].pc = "peercred" => conn[c].pc \in RestPcs]_vars

\* C16, its case: a request was read, handled and answered, and the
\* connection was closed after its response.
C16_Witness ==
    /\ requests_served >= 1
    /\ \E c \in Tasks :
          /\ conn[c].pc = "write"
          /\ conn[c].request.op # "none"
          /\ conn[c].response.kind \notin {"none", "Error"}

Accepted(c) == conn[c].pc \notin RestPcs \/ requests_served > 0

\* C21: run removes a stale file at socket_path, binds and sets the socket
\* file's mode to 0600 before the first accept: whenever the server accepts
\* (or has accepted) a connection the file at socket_path is the socket run
\* bound, with mode 0600, and a failure to set the mode ends run with no
\* connection accepted (BootSpec).
C21_SocketMode ==
    /\ [](main.pc = "accept"
             => /\ socket_file.exists
                /\ socket_file.listener
                /\ socket_file.mode = SocketMode)
    /\ []((\E c \in Tasks : Accepted(c)) => main.pc = "accept")
    /\ [][main'.pc = "accept" /\ main.pc # "accept"
             => main.pc = "set_permissions" /\ socket_file.listener]_vars
    /\ [][\A c \in Tasks :
             conn[c].pc \in RestPcs /\ conn'[c].pc \notin RestPcs
             => socket_file.mode = SocketMode /\ socket_file.listener]_vars

\* C21, its case: a stale socket file was removed, bind created the file
\* with a mode other than 0600, and a connection has been accepted.
C21_Witness ==
    /\ main.unlinked
    /\ BoundMode(daemon[1].umask) # SocketMode
    /\ conn[1].pc = "peercred"
    /\ socket_file.mode = SocketMode

\* C24: no connection is accepted unless startup succeeded: when secret
\* generation, the session key or the socket fails, the process ends before
\* the accept loop, and it never accepted a connection, served a request or
\* wrote a response (BootSpec).
C24_NoTrafficBeforeStartup ==
    /\ [](\A c \in Tasks :
             Accepted(c)
             => /\ main.pc = "accept"
                /\ daemon[1].pc = "done" /\ daemon[1].result = "Ok"
                /\ daemon[1].key.len = KeyLen
                /\ socket_file.exists /\ socket_file.listener)
    /\ [](main.pc = "exit"
             => /\ main.error # "none"
                /\ \A c \in Tasks : conn[c] = IdleConn
                /\ requests_served = 0)
    /\ [][main.pc = "exit" => main'.pc = "exit"]_vars

\* C24, its case: the session-key file was corrupt (wrong length), the
\* process ended, and no connection was ever accepted.
C24_Witness ==
    /\ main.pc = "exit"
    /\ main.error = "session key"
    /\ daemon[1].key.len # KeyLen
    /\ \A c \in Tasks : conn[c] = IdleConn

\* C22: HealthCheck carries no auth field and is never refused for it; its
\* handling leaves the grant table, both ticket sets and the frame table
\* unchanged, adds exactly one to requests_served, and replies
\* HealthCheckReply with status "healthy" (ListenerSpec).
C22_HealthCheckFrame ==
    /\ [](\A c \in Tasks :
             IsRequest(c, "health_check")
             => /\ "auth" \notin DOMAIN conn[c].request
                /\ Replied(c) => /\ conn[c].response.kind = "HealthCheckReply"
                                 /\ conn[c].response.status = "healthy")
    /\ [][\A c \in Tasks :
             IsRequest(c, "health_check") /\ conn'[c] # conn[c]
             => /\ tables' = tables
                /\ conn[c].pc = "handle"
                      => /\ conn'[c].pc = "health_check"
                         /\ requests_served' = requests_served + 1
                /\ conn[c].pc # "handle" => requests_served' = requests_served]_vars

\* C22, its case: a HealthCheck is answered while the tables hold a ticket
\* and a frame, after earlier requests were served.
C22_Witness ==
    \E c \in Tasks :
        /\ IsRequest(c, "health_check")
        /\ Replied(c)
        /\ conn[c].response.requests_served >= 2
        /\ DOMAIN issued_tickets # {}
        /\ DOMAIN frames # {}

Triple(call) ==
    [frame_id |-> call.frame_id, level |-> call.level,
     data_digest |-> call.data_digest]

\* C23: verify_seal of a triple accepts the seal compute_seal gave for that
\* triple; it refuses that seal against a triple that differs from it in an
\* argument, and it refuses every candidate whose length is not 32;
\* compute_seal gives a 32-byte seal that is the same for the same triple
\* (CryptoSpec).
C23_SealRoundTrip ==
    /\ secrets_call.pc = "verified"
          => /\ secrets_call.valid
                   <=> /\ secrets_call.candidate = secrets_call.seal
                       /\ secrets_call.against = Triple(secrets_call)
             /\ secrets_call.candidate.len # SealLen => ~secrets_call.valid
    /\ secrets_call.pc = "computed"
          => /\ secrets_call.seal.len = SealLen
             /\ secrets_call.before.pc = "computed"
                   => (Triple(secrets_call.before) = Triple(secrets_call)
                          <=> secrets_call.before.seal = secrets_call.seal)

\* C23, its case: the seal of a triple is verified against the triple with
\* only the level changed (by 256) and is refused.
C23_Witness ==
    /\ secrets_call.pc = "verified"
    /\ secrets_call.candidate = secrets_call.seal
    /\ secrets_call.against =
          [Triple(secrets_call) EXCEPT !.level = secrets_call.level + 256]
    /\ ~secrets_call.valid

AuditedKinds ==
    {"RedeemGrantReply", "ConsumeTicketReply", "ComputeSealReply", "VerifySealReply"}

\* C25, as claimed: audit_id is a monotonic counter: a success reply carries
\* an audit_id greater than that of every success reply produced before it,
\* here the RedeemGrantReply replies already produced (RunSpec).
C25_AuditIdMonotonic ==
    [][\A c \in Conns :
          (/\ conn[c].pc # "write"
           /\ conn'[c].pc = "write"
           /\ conn'[c].response.kind \in AuditedKinds)
          => \A g \in DOMAIN redeem_reply :
                conn'[c].response.audit_id > redeem_reply[g].audit_id]_vars

\* C26, as claimed: a consume of a ticket that was issued and has already
\* been consumed with success, its consumed entry still there, fails with
\* the already-consumed reason, which is not the reason of a never-issued
\* ticket (TicketSpec).
C26_ReplayDistinguished ==
    [][\A c \in Tasks :
          LET ticket == conn[c].request.ticket
          IN  (/\ conn[c].pc = "consume_construction_ticket"
               /\ consume_ok[ticket] >= 1
               /\ ticket \in DOMAIN consumed_tickets
               /\ conn'[c] # conn[c])
              => /\ conn'[c].pc = "write"
                 /\ conn'[c].response.kind = "Error"
                 /\ Contains(conn'[c].response.reason, "already consumed")
                 /\ conn'[c].response.reason # ErrTicketNotIssued]_vars

\* C27, as claimed: a consume of an issued ticket whose expires_at has
\* passed returns an error, cleanup or not, and an expired ticket is never
\* put into the consumed set (RunSpec).
C27_ExpiredTicketRefused ==
    /\ [][\A c \in Conns :
             LET ticket == conn[c].request.ticket
             IN  (/\ conn[c].pc = "consume_construction_ticket"
                  /\ ticket \in DOMAIN issued_tickets
                  /\ now > issued_tickets[ticket]
                  /\ conn'[c] # conn[c])
                 => /\ conn'[c].pc = "write"
                    /\ conn'[c].response.kind = "Error"]_vars
    /\ [][\A t \in AllTickets :
             (/\ t \notin DOMAIN consumed_tickets
              /\ t \in DOMAIN consumed_tickets'
              /\ t \in DOMAIN issued_tickets)
             => now <= issued_tickets[t]]_vars

RepliedExpired(c) ==
    /\ IsRequest(c, "redeem_grant")
    /\ RepliedError(c)
    /\ Contains(conn[c].response.reason, "expired")

\* C28: redeem removes the entry before it tests the expiry: once a redeem
\* of a grant has failed as expired the grant is not in the table, a grant
\* that left the table never comes back, and a redeem that starts on a
\* grant that left the table fails as not found (GrantSpec).
C28_ExpiredRedeemRemoves ==
    /\ [](\A c \in Tasks :
             RepliedExpired(c) => conn[c].request.grant_id \notin DOMAIN grants)
    /\ [][\A g \in DOMAIN authorized :
             g \notin DOMAIN grants => g \notin DOMAIN grants']_vars
    /\ [][\A c \in Tasks :
             (/\ conn[c].pc = "redeem_grant"
              /\ conn[c].request.grant_id \notin DOMAIN grants
              /\ conn'[c] # conn[c])
             => /\ conn'[c].pc = "write"
                /\ conn'[c].response.kind = "Error"
                /\ Contains(conn'[c].response.reason, "not found")]_vars

\* C28, its case: a redeem of a grant failed as expired, and a second
\* redeem of the same grant, made after it, failed as not found.
C28_Witness ==
    \E c1, c2 \in Tasks :
        /\ c1 # c2
        /\ RepliedExpired(c1)
        /\ conn[c2].request = conn[c1].request
        /\ RepliedError(c2)
        /\ Contains(conn[c2].response.reason, "not found")
        /\ redeem_ok[conn[c1].request.grant_id] = 0

RepliedFrames == {authorized[g].request.frame_id : g \in DOMAIN redeem_reply}

Metadata(r) == [level |-> r.level, data_digest |-> r.data_digest]

Registering ==
    {conn[c].local.grant.request.frame_id : c \in {t \in Conns : conn[t].pc = "register"}}

\* C31: update never registers a frame: on a frame_id that is not in the
\* table it returns an error and leaves the table as it was, no step of
\* update changes the key set, and under every interleaving the keys of the
\* table are the frame_ids register_from_grant has inserted (FrameSpec).
C31_UpdateNeverRegisters ==
    /\ [](/\ DOMAIN frames \subseteq redeemed_frames
          /\ redeemed_frames \subseteq DOMAIN frames \cup Registering)
    /\ [][\A c \in Conns :
             conn[c].pc \in {"update_contains", "update_insert"}
                /\ conn'[c] # conn[c]
             => /\ DOMAIN frames' = DOMAIN frames
                /\ (conn[c].pc = "update_contains"
                       /\ conn[c].request.frame_id \notin DOMAIN frames)
                      => /\ frames' = frames
                         /\ conn'[c].pc = "write"
                         /\ conn'[c].response.kind = "Error"]_vars

\* C31, its case: update on an unknown frame_id has returned its error
\* while another frame is registered, and the unknown one is still absent.
C31_Witness ==
    \E c \in Conns :
        /\ IsRequest(c, "compute_seal")
        /\ RepliedError(c)
        /\ Contains(conn[c].response.reason, "Cannot update unknown frame: ")
        /\ conn[c].request.frame_id \notin DOMAIN frames
        /\ DOMAIN frames # {}

Restrict(map, keys) == [k \in keys |-> map[k]]
RedeemCheckPending(g) ==
    \E c \in Tasks : conn[c].pc = "redeem_check" /\ conn[c].request.grant_id = g

\* C32: a cleanup at time now removes exactly the entries with
\* expires_at <= now and keeps those with expires_at > now, in the grant
\* table and in both ticket sets; so a grant is in the table at every
\* instant before its expires_at until a redeem takes it, and a redeem that
\* starts then finds it (ListenerSpec).
C32_CleanupRemovesExpired ==
    /\ [][grants' # grants /\ conn' = conn
             => grants' = Restrict(grants, {g \in DOMAIN grants :
                                               grants[g].expires_at > now})]_vars
    /\ [][issued_tickets' # issued_tickets /\ conn' = conn
             => issued_tickets' =
                   Restrict(issued_tickets, {t \in DOMAIN issued_tickets :
                                                issued_tickets[t] > now})]_vars
    /\ [][consumed_tickets' # consumed_tickets /\ conn' = conn
             => consumed_tickets' =
                   Restrict(consumed_tickets, {t \in DOMAIN consumed_tickets :
                                                  consumed_tickets[t] > cleaner.now})]_vars
    /\ [](\A g \in DOMAIN authorized :
             (/\ now < authorized[g].expires_at
              /\ redeem_ok[g] = 0
              /\ ~RedeemCheckPending(g))
             => g \in DOMAIN grants /\ grants[g] = authorized[g])
    /\ [][\A c \in Tasks :
             LET g == conn[c].request.grant_id
             IN  (/\ conn[c].pc = "redeem_grant"
                  /\ g \in DOMAIN authorized
                  /\ now < authorized[g].expires_at
                  /\ redeem_ok[g] = 0
                  /\ ~RedeemCheckPending(g)
                  /\ conn'[c] # conn[c])
                 => conn'[c].pc = "redeem_check"]_vars

\* C32, its case: an issued ticket that nobody consumed is gone from the
\* issued set after its expiry: a cleanup removed it.
C32_Witness ==
    \E t \in ever_issued :
        /\ t \notin DOMAIN issued_tickets
        /\ t \notin DOMAIN consumed_tickets
        /\ consume_ok[t] = 0
        /\ \A c \in Tasks : conn[c].pc \in RestPcs

\* C33: a redeem that returns Ok returns the request triple and the
\* construction ticket of the authorize call that returned its grant_id,
\* the RedeemGrantReply carries that ticket and the seal of that triple,
\* and the redeem leaves the grants of all other grant_ids as they were
\* (PairSpec).
C33_RedeemReturnsAuthorized ==
    /\ [](\A c \in Conns :
             LET g == conn[c].request.grant_id
             IN  /\ conn[c].pc \in {"issue", "register"}
                    => /\ g \in DOMAIN authorized
                       /\ conn[c].local.grant.request = authorized[g].request
                       /\ conn[c].local.grant.construction_ticket =
                             authorized[g].construction_ticket
                 /\ (Replied(c) /\ conn[c].response.kind = "RedeemGrantReply")
                    => /\ g \in DOMAIN authorized
                       /\ conn[c].response.construction_ticket =
                             authorized[g].construction_ticket
                       /\ conn[c].response.seal =
                             compute_seal(authorized[g].request.frame_id,
                                          authorized[g].request.level,
                                          authorized[g].request.data_digest))
    /\ [](\A g, h \in DOMAIN authorized :
             g # h => authorized[g].construction_ticket
                         # authorized[h].construction_ticket)
    /\ [][\A c \in Conns :
             conn[c].pc \in {"redeem_grant", "redeem_check"} /\ conn'[c] # conn[c]
             => \A h \in DOMAIN grants :
                   h # conn[c].request.grant_id
                   => h \in DOMAIN grants' /\ grants'[h] = grants[h]]_vars

\* C33, its case: a redeem has replied with the ticket of its grant while
\* the grant of another grant_id, for another frame, is still in the table.
C33_Witness ==
    \E c \in Conns, h \in DOMAIN grants :
        /\ Replied(c)
        /\ conn[c].response.kind = "RedeemGrantReply"
        /\ h # conn[c].request.grant_id
        /\ grants[h].request # authorized[conn[c].request.grant_id].request
        /\ conn[c].response.construction_ticket # grants[h].construction_ticket

RedeemPcs == {"redeem_grant", "redeem_check"}

\* C35: a RedeemGrant that fails issues no ticket and registers no frame:
\* its error comes from redeem (the lookup or the expiry test), no step of
\* redeem changes the issued set, the consumed set or the frame table, and
\* a request that has reached issue or register_from_grant no longer
\* fails (PairSpec).
C35_FailedRedeemNoEffect ==
    /\ [][\A c \in Conns :
             conn[c].pc \in RedeemPcs /\ conn'[c] # conn[c]
             => /\ issued_tickets' = issued_tickets
                /\ consumed_tickets' = consumed_tickets
                /\ frames' = frames]_vars
    /\ [][\A c \in Conns :
             (/\ IsRequest(c, "redeem_grant")
              /\ ~Replied(c)
              /\ conn'[c].pc = "write"
              /\ conn'[c].response.kind = "Error")
             => conn[c].pc \in RedeemPcs]_vars
    /\ [](\A c \in Conns :
             (IsRequest(c, "redeem_grant") /\ RepliedError(c))
             => \/ Contains(conn[c].response.reason, "not found")
                \/ Contains(conn[c].response.reason, "expired"))

\* C35, its case: a redeem has failed as expired while another grant was
\* redeemed: the frame of the expired grant is not registered and its
\* ticket is in neither set.
C35_Witness ==
    \E c \in Conns :
        LET g == conn[c].request.grant_id
        IN  /\ RepliedExpired(c)
            /\ DOMAIN frames # {}
            /\ authorized[g].request.frame_id \notin DOMAIN frames
            /\ authorized[g].construction_ticket \notin DOMAIN issued_tickets
            /\ authorized[g].construction_ticket \notin DOMAIN consumed_tickets

GrantCleanupStep == grants' # grants /\ conn' = conn

\* C36, as claimed: redeem and cleanup_expired agree on expiry at every
\* instant, now = expires_at included: a cleanup at time now removes a
\* grant only if a redeem of it at the same now would fail as expired
\* (GrantSpec).
C36_CleanupAgreesWithRedeem ==
    [][GrantCleanupStep
          => \A g \in DOMAIN grants :
                g \notin DOMAIN grants' => GrantExpired(grants[g], now)]_vars

TripleOps == {"authorize_construct", "compute_seal"}
Retagged(r, op) == [r EXCEPT !.op = op]
AuthenticatedOps ==
    {"authorize_construct", "redeem_grant", "consume_construction_ticket",
     "compute_seal", "verify_seal"}
CanonicalOfOthers(op) ==
    {canonical_bytes_without_auth(q) :
        q \in OfOps(ListenerRequests, AuthenticatedOps \ {op})}

\* C37: the HMAC input does not name the variant: an AuthorizeConstruct and
\* a ComputeSeal of the same triple have the same canonical bytes, so
\* validate_request_auth accepts an auth tag for the one exactly when it
\* accepts it for the other, and handle_request dispatches a ComputeSeal
\* that carries the tag of the AuthorizeConstruct (and the reverse); the
\* inputs of RedeemGrant and ConsumeConstructionTicket differ from each
\* other and from those of the array variants (ListenerSpec).
C37_HmacIgnoresVariant ==
    /\ [](\A c \in Tasks :
             LET r == conn[c].request
             IN  /\ r.op \in TripleOps
                    => \A op \in TripleOps :
                          /\ canonical_bytes_without_auth(Retagged(r, op))
                                = canonical_bytes_without_auth(r)
                          /\ validate_request_auth(Retagged(r, op))
                                <=> validate_request_auth(r)
                 /\ r.op \in {"redeem_grant", "consume_construction_ticket"}
                    => canonical_bytes_without_auth(r) \notin CanonicalOfOthers(r.op))
    /\ [][\A c \in Tasks :
             LET r == conn[c].request
             IN  (/\ conn[c].pc = "handle"
                  /\ conn'[c] # conn[c]
                  /\ r.op \in TripleOps
                  /\ \E op \in TripleOps \ {r.op} :
                         r.auth = compute_request_auth(Retagged(r, op)))
                 => conn'[c].pc = r.op]_vars

\* C37, its case: a ComputeSeal whose auth field is the tag of the
\* AuthorizeConstruct of the same triple has passed the HMAC check, after
\* that AuthorizeConstruct was served.
C37_Witness ==
    \E c \in Tasks, g \in DOMAIN authorized :
        /\ conn[c].pc = "compute_seal"
        /\ Triple(conn[c].request) = authorized[g].request
        /\ conn[c].request.auth =
              compute_request_auth(Retagged(conn[c].request, "authorize_construct"))

Pending(g) == g \in DOMAIN authorized /\ redeem_ok[g] = 0

\* C38: every ticket in the issued set is the construction ticket of a
\* grant whose redeem returned Ok; while a grant is pending (authorized, no
\* redeem of it has succeeded) its ticket is in neither set, and a
\* ConsumeConstructionTicket of it fails as never issued (RunSpec).
C38_IssuedOnlyByRedeem ==
    /\ [](\A t \in DOMAIN issued_tickets :
             \E g \in DOMAIN authorized :
                /\ authorized[g].construction_ticket = t
                /\ redeem_ok[g] >= 1)
    /\ [](\A g \in DOMAIN authorized :
             Pending(g)
             => /\ authorized[g].construction_ticket \notin DOMAIN issued_tickets
                /\ authorized[g].construction_ticket \notin DOMAIN consumed_tickets)
    /\ [][\A c \in Conns, g \in DOMAIN authorized :
             (/\ conn[c].pc = "consume_construction_ticket"
              /\ conn[c].request.ticket = authorized[g].construction_ticket
              /\ Pending(g)
              /\ conn'[c] # conn[c])
             => /\ conn'[c].pc = "write"
                /\ conn'[c].response.kind = "Error"
                /\ Contains(conn'[c].response.reason, "never issued")
                /\ consume_ok' = consume_ok]_vars

\* C38, its case: a consume of the ticket of a grant that is still in the
\* grant table has failed as never issued.
C38_Witness ==
    \E c \in Conns, g \in DOMAIN grants :
        /\ Pending(g)
        /\ IsRequest(c, "consume_construction_ticket")
        /\ conn[c].request.ticket = grants[g].construction_ticket
        /\ RepliedError(c)
        /\ Contains(conn[c].response.reason, "never issued")

ClosedUnread == {"eof", "undecoded"}

\* C39: a connection of the authorized UID that the peer closes before a
\* complete request arrived (nothing sent, or bytes that do not decode)
\* ends there: the step that ends it writes no response and changes no
\* table and no counter, the connection holds no request and no response,
\* and it never reaches handle_request (ListenerSpec).
C39_ClosedMidReadNoResponse ==
    /\ [][\A c \in Tasks :
             (conn[c].pc = "read" /\ conn'[c].pc \notin {"read", "handle"})
             => /\ conn[c].uid = appuser_uid
                /\ conn'[c].pc \in ClosedUnread
                /\ conn'[c].response = NoResponse
                /\ conn'[c].request = NoRequest
                /\ tables' = tables
                /\ requests_served' = requests_served
                /\ history' = history]_vars
    /\ [][\A c \in Tasks :
             (conn[c].pc \in ClosedUnread /\ conn'[c] # conn[c])
             => /\ conn'[c].pc = "peercred"
                /\ tables' = tables
                /\ requests_served' = requests_served]_vars

\* C39, its case: a connection was closed on bytes that do not decode,
\* after an earlier request was served and while a grant is in the table.
C39_Witness ==
    \E c \in Tasks :
        /\ conn[c].pc = "undecoded"
        /\ requests_served >= 1
        /\ DOMAIN grants # {}

SealPcs == {"compute_seal", "update_contains", "update_insert", "verify_seal"}
SameSealRequest(c1, c2) ==
    /\ conn[c1].request = conn[c2].request
    /\ Replied(c1)
    /\ Replied(c2)
    /\ conn[c1].response.kind = conn[c2].response.kind

\* C40: the seal operations are idempotent on a registered frame: a
\* ComputeSeal applied to a table that already holds its request's
\* metadata leaves the table as it is, two ComputeSeal replies to the same
\* request carry the same seal, a VerifySeal changes no table, and two
\* VerifySeal replies to the same arguments carry the same verdict,
\* whatever metadata the frame holds (SealSpec).
C40_SealOpsIdempotent ==
    /\ [][\A c \in Conns :
             conn[c].pc \in SealPcs /\ conn'[c] # conn[c]
             => /\ <<grants, issued_tickets, consumed_tickets>>'
                      = <<grants, issued_tickets, consumed_tickets>>
                /\ conn[c].pc # "update_insert" => frames' = frames
                /\ (/\ conn[c].pc = "update_insert"
                    /\ conn[c].request.frame_id \in DOMAIN frames
                    /\ frames[conn[c].request.frame_id] = Metadata(conn[c].request))
                      => frames' = frames]_vars
    /\ [](\A c1, c2 \in Conns :
             (/\ SameSealRequest(c1, c2)
              /\ conn[c1].response.kind \in {"ComputeSealReply", "VerifySealReply"})
             => conn[c1].response = conn[c2].response)
    /\ [][\A c \in Conns :
             LET r == conn[c].request
             IN  (/\ conn[c].pc = "verify_seal"
                  /\ r.frame_id \in DOMAIN frames
                  /\ conn'[c] # conn[c])
                 => /\ conn'[c].response.kind = "VerifySealReply"
                    /\ conn'[c].response.valid
                          = verify_seal(r.frame_id, r.level, r.data_digest, r.seal)]_vars

\* C40, its case: the same ComputeSeal request was answered twice with the
\* same seal, and the frame holds the metadata of the request.
C40_Witness ==
    \E c1, c2 \in Conns :
        /\ c1 # c2
        /\ SameSealRequest(c1, c2)
        /\ conn[c1].response.kind = "ComputeSealReply"
        /\ conn[c1].response.seal = conn[c2].response.seal
        /\ frames[conn[c1].request.frame_id] = Metadata(conn[c1].request)

Counted(r) == r.op = "health_check" \/ validate_request_auth(r)

\* C34: requests_served counts the handle_request calls that were
\* HealthCheck or passed the HMAC check, under every interleaving of the
\* handlers: each such call adds exactly one, a call rejected with
\* "Authentication failed" adds nothing, no other step changes the counter,
\* so it never decreases; and a HealthCheck reply reports the counter as
\* read after the HealthCheck's own increment (CounterSpec).
C34_RequestsServedCounts ==
    /\ [][\A c \in Conns :
             conn[c].pc = "handle" /\ conn'[c] # conn[c]
             => IF Counted(conn[c].request)
                THEN /\ requests_served' = requests_served + 1
                     /\ conn'[c].pc = conn[c].request.op
                ELSE /\ requests_served' = requests_served
                     /\ conn'[c].pc = "write"
                     /\ conn'[c].response = AuthFailedResponse]_vars
    /\ [][requests_served' # requests_served
             => \E c \in Conns : conn[c].pc = "handle" /\ conn'[c] # conn[c]]_vars
    /\ [][requests_served' >= requests_served]_vars
    /\ [][\A c \in Conns :
             conn[c].pc = "health_check" /\ conn'[c] # conn[c]
             => /\ conn'[c].response.kind = "HealthCheckReply"
                /\ conn'[c].response.requests_served = requests_served]_vars
    /\ [](\A c \in Conns :
             /\ conn[c].pc = "health_check" => requests_served >= 1
             /\ (Replied(c) /\ conn[c].response.kind = "HealthCheckReply")
                   => /\ conn[c].response.requests_served >= 1
                      /\ conn[c].response.requests_served <= requests_served)

\* C34, its case: two handlers ran concurrently: one request was rejected
\* with "Authentication failed" and a HealthCheck that followed another
\* counted request reports 2, the counter's value.
C34_Witness ==
    \E c1, c2 \in Conns :
        /\ RepliedError(c1)
        /\ conn[c1].response = AuthFailedResponse
        /\ Replied(c2)
        /\ conn[c2].response.kind = "HealthCheckReply"
        /\ conn[c2].response.requests_served = 2
        /\ requests_served = 2

=============================================================================
